---------------------------- MODULE Spec2Model ----------------------------
(***************************************************************************)
(* Verification model of the ARK modification processor                    *)
(* (_ark_system/_tools/apply_modifications.py v11.2, ark_checksum.py and   *)
(* the lock / atomic-write helpers of updater.py).                         *)
(*                                                                         *)
(* File contents are byte strings modelled as sequences of tokens: one    *)
(* token per byte of interest, one token for the 3-byte UTF-8 BOM, one     *)
(* token for a 100-byte block of ordinary text, and one token for a        *)
(* well-formed integrity tag (106 bytes) carrying the digest it embeds.    *)
(* SHA-256 is modelled as an injective encoding of the hashed bytes.       *)
(***************************************************************************)
EXTENDS Integers, Sequences, FiniteSets, TLC

(***************************************************************************)
(* Bounds of the model.                                                    *)
(***************************************************************************)
\* Largest number of operations in one modification package.
MaxOps == 3
\* Last value of the wall clock (whole seconds, as the backup timestamp has
\* one-second resolution).
MaxClock == 1
\* Longest content, in tokens, the fingerprint is computed of on its own.
MaxLen == 3

(***************************************************************************)
(* Byte tokens.  A token is a sequence of integers: <<n>> for an ordinary  *)
(* byte (or block of bytes), and <<TagMark>> \o digest for an integrity    *)
(* tag, where digest is the value of Sha256 the tag embeds.                *)
(***************************************************************************)
LF == <<0>>
CR == <<1>>
BOM == <<2>>
SP == <<3>>
\* one ordinary byte "x" / "y"
ChX == <<4>>
ChY == <<5>>
\* the byte "."
DOT == <<6>>
\* 100-byte blocks of ordinary text (two different texts)
BLKX == <<7>>
BLKY == <<8>>
TagMark == <<9>>
TagEnd == <<10>>
\* JSON text: "[", "]", "," and the serialisations of three scalar values
LBR == <<11>>
RBR == <<12>>
COMMA == <<13>>
E1 == <<14>>
E2 == <<15>>
E3 == <<16>>

\* A tag written otherwise than CHECKSUM_TAG_FORMAT writes it (upper-case
\* hex digits, other spacing inside the comment): ark_checksum's
\* case-insensitive pattern with \s* matches it, CHECKSUM_TAG_REGEX of
\* apply_modifications does not.
LooseMark == <<17>>

\* text matched by CHECKSUM_TAG_REGEX (apply_modifications.py)
IsTag(t) == <<Head(t)>> = TagMark
IsLooseTag(t) == <<Head(t)>> = LooseMark
\* text matched by CHECKSUM_TAG_PATTERN_BYTES (ark_checksum.py)
MatchesTagPattern(t) == IsTag(t) \/ IsLooseTag(t)
TagOf(h) == TagMark \o h
LooseTagOf(h) == LooseMark \o h
TagDigest(t) == Tail(t)

\* len(CHECKSUM_TAG_FORMAT.format(<64 hex digits>)) in bytes.
TagLen == 106
\* bytes in a block token
BlockLen == 100
\* len(codecs.BOM_UTF8)
BomLen == 3

TokLen(t) == IF MatchesTagPattern(t) THEN TagLen
             ELSE IF t \in {BLKX, BLKY} THEN BlockLen
             ELSE IF t = BOM THEN BomLen ELSE 1

RECURSIVE ByteLen(_)
ByteLen(s) == IF s = <<>> THEN 0 ELSE TokLen(Head(s)) + ByteLen(Tail(s))

\* hashlib.sha256(...).hexdigest(): an injective encoding of the hashed
\* bytes (no two byte strings share a digest); a tag inside the hashed
\* bytes is bracketed by TagMark .. TagEnd.
RECURSIVE Sha256(_)
Sha256(s) ==
  IF s = <<>> THEN <<>>
  ELSE (IF MatchesTagPattern(Head(s)) THEN Head(s) \o TagEnd ELSE Head(s))
         \o Sha256(Tail(s))

EMPTY_FILE_CHECKSUM == Sha256(<<>>)

(***************************************************************************)
(* Sequence helpers.                                                       *)
(***************************************************************************)
Last(s) == s[Len(s)]
Front(s) == SubSeq(s, 1, Len(s) - 1)

RECURSIVE RStripSet(_, _)
RStripSet(s, S) == IF s # <<>> /\ Last(s) \in S THEN RStripSet(Front(s), S) ELSE s

RECURSIVE LStripSet(_, _)
LStripSet(s, S) == IF s # <<>> /\ Head(s) \in S THEN LStripSet(Tail(s), S) ELSE s

RECURSIVE FilterOut(_, _)
FilterOut(s, S) ==
  IF s = <<>> THEN <<>>
  ELSE IF Head(s) \in S THEN FilterOut(Tail(s), S)
       ELSE <<Head(s)>> \o FilterOut(Tail(s), S)

(***************************************************************************)
(* ark_checksum.py: the canonical fingerprint.                             *)
(***************************************************************************)
\* raw.replace(b'\r\n', b'\n')
RECURSIVE CrlfToLf(_)
CrlfToLf(s) ==
  IF s = <<>> THEN <<>>
  ELSE IF Len(s) >= 2 /\ s[1] = CR /\ s[2] = LF THEN <<LF>> \o CrlfToLf(Tail(Tail(s)))
       ELSE <<Head(s)>> \o CrlfToLf(Tail(s))

\* The (\r?\n)* prefix of CHECKSUM_TAG_PATTERN_BYTES, matched leftmost:
\* the longest run of "\n" / "\r\n" units that ends the string.
RECURSIVE StripNewlineUnits(_)
StripNewlineUnits(s) ==
  IF s # <<>> /\ Last(s) = LF
  THEN LET f == Front(s)
       IN IF f # <<>> /\ Last(f) = CR THEN StripNewlineUnits(Front(f))
          ELSE StripNewlineUnits(f)
  ELSE s

\* CHECKSUM_TAG_PATTERN_BYTES.sub(b'', raw): a tag followed only by
\* whitespace up to the end of the data is removed together with the
\* newlines right before it.
StripTrailingTag(s) ==
  LET body == RStripSet(s, {LF, CR, SP})
  IN IF body # <<>> /\ MatchesTagPattern(Last(body))
     THEN StripNewlineUnits(Front(body)) ELSE s

\* a canonical form that keeps carriage returns
CanonicalizeKeepingCr(raw) ==
  LET nobom == IF raw # <<>> /\ Head(raw) = BOM THEN Tail(raw) ELSE raw
  IN RStripSet(StripTrailingTag(nobom), {LF})

\* _canonicalize_bytes_for_hash, for raw bytes that are not None
CanonicalizeBytes(raw) ==
  LET nobom == IF raw # <<>> /\ Head(raw) = BOM THEN Tail(raw) ELSE raw
  IN RStripSet(StripTrailingTag(CrlfToLf(nobom)), {LF})

NoneBytes == <<<<-1>>>>

\* calculate_clean_checksum(data): None hashes as the empty string
CalculateCleanChecksum(data) ==
  IF data = NoneBytes THEN Sha256(<<>>) ELSE Sha256(CanonicalizeBytes(data))

(***************************************************************************)
(* apply_modifications.py: pure helpers.                                   *)
(***************************************************************************)
\* decode_file_content: the model's bytes are ASCII, which every detected
\* codec decodes to itself; a leading UTF-8 BOM is consumed by the detected
\* utf_8_sig codec.  str.encode('utf-8') is the inverse on this alphabet.
DecodeFileContent(data) ==
  IF data # <<>> /\ Head(data) = BOM THEN Tail(data) ELSE data

\* strip_tags (nested in process_operation): every tag matching
\* CHECKSUM_TAG_REGEX is removed, then str.strip() trims whitespace at both
\* ends.  None and b"" give b"".
StripTags(data) ==
  IF data = NoneBytes \/ data = <<>> THEN <<>>
  ELSE LET text == DecodeFileContent(data)
           untagged == SelectSeq(text, LAMBDA t : ~IsTag(t))
       IN LStripSet(RStripSet(untagged, {LF, CR, SP}), {LF, CR, SP})

\* s[k..] starts with p
StartsWithAt(s, p, k) ==
  /\ k + Len(p) - 1 <= Len(s)
  /\ \A j \in 1..Len(p) : s[k + j - 1] = p[j]

\* str.find: the first index at which p occurs in s, 0 when it does not
FindFirst(s, p) ==
  IF \E k \in 1..Len(s) : StartsWithAt(s, p, k)
  THEN CHOOSE k \in 1..Len(s) :
         StartsWithAt(s, p, k) /\ \A m \in 1..(k - 1) : ~StartsWithAt(s, p, m)
  ELSE 0

Contains(s, p) == p = <<>> \/ FindFirst(s, p) > 0

\* DEFAULT_MARKERS: '...' (which '[...' and ']...' contain); the phrase
\* markers consist of bytes outside the model's alphabet.
DEFAULT_MARKERS == {<<DOT, DOT, DOT>>}

\* a size test that also rejects a candidate of exactly half the length
DetectTruncationInclusive(original, candidate) ==
  IF original = NoneBytes \/ original = <<>> THEN FALSE
  ELSE \/ 2 * ByteLen(candidate) <= ByteLen(original)
       \/ \E m \in DEFAULT_MARKERS : Contains(candidate, m)

\* detect_truncation_or_placeholder(original_bytes, candidate_bytes)[0]
DetectTruncationOrPlaceholder(original, candidate) ==
  IF original = NoneBytes \/ original = <<>> THEN FALSE
  ELSE \/ 2 * ByteLen(candidate) < ByteLen(original)
       \/ \E m \in DEFAULT_MARKERS : Contains(candidate, m)

\* new_text.replace('\n', '\r\n')
RECURSIVE LfToCrlf(_)
LfToCrlf(s) ==
  IF s = <<>> THEN <<>>
  ELSE IF Head(s) = LF THEN <<CR, LF>> \o LfToCrlf(Tail(s))
       ELSE <<Head(s)>> \o LfToCrlf(Tail(s))

\* replace_in_file_logic for a plain (non-regex) pattern:
\* [bytes |-> new bytes, count |-> number of replacements]
ReplaceInFileLogic(original, pattern, replacement) ==
  LET text == DecodeFileContent(original)
      k == FindFirst(text, pattern)
  IN IF pattern = <<>> \/ k = 0 THEN [bytes |-> original, count |-> 0]
     ELSE LET replaced == SubSeq(text, 1, k - 1) \o replacement
                          \o SubSeq(text, k + Len(pattern), Len(text))
              styled == IF Contains(text, <<CR, LF>>) /\ ~Contains(replaced, <<CR, LF>>)
                        THEN LfToCrlf(replaced) ELSE replaced
              bytes == IF original # <<>> /\ Head(original) = BOM
                          /\ ~(styled # <<>> /\ Head(styled) = BOM)
                       THEN <<BOM>> \o styled ELSE styled
          IN [bytes |-> bytes, count |-> 1]

\* JSON whitespace between tokens
JsonSpace == {SP, LF, CR}
JsonScalars == {E1, E2, E3}

\* json.loads of a text whose values are scalars or arrays of scalars:
\*   ok       the text is valid JSON
\*   list     its top-level value is an array
\*   items    the elements of the array, or the one scalar
JsonLoads(text) ==
  LET t == FilterOut(text, JsonSpace)
      n == Len(t)
  IN IF n = 1 /\ t[1] \in JsonScalars
     THEN [ok |-> TRUE, list |-> FALSE, items |-> t]
     ELSE IF n = 2 /\ t = <<LBR, RBR>>
     THEN [ok |-> TRUE, list |-> TRUE, items |-> <<>>]
     ELSE IF /\ n >= 3 /\ n % 2 = 1 /\ t[1] = LBR /\ t[n] = RBR
             /\ \A k \in 2..(n - 1) : IF k % 2 = 0 THEN t[k] \in JsonScalars
                                       ELSE t[k] = COMMA
     THEN [ok |-> TRUE, list |-> TRUE, items |-> [k \in 1..((n - 1) \div 2) |-> t[2 * k]]]
     ELSE [ok |-> FALSE, list |-> FALSE, items |-> <<>>]

\* json.dumps(array, ensure_ascii=False, indent=2)
RECURSIVE JsonDumpItems(_)
JsonDumpItems(items) ==
  IF items = <<>> THEN <<>>
  ELSE <<LF, SP, SP, Head(items)>>
       \o (IF Tail(items) = <<>> THEN <<LF>> ELSE <<COMMA>>)
       \o JsonDumpItems(Tail(items))

JsonDumps(items) == <<LBR>> \o JsonDumpItems(items) \o <<RBR>>

\* lines 342-346: base_array.extend(to_append) for a list, append otherwise
JsonAppend(base_array, to_append) ==
  IF to_append.list THEN base_array \o to_append.items
  ELSE Append(base_array, to_append.items[1])

\* The bytes a production write puts in the file (lines 425-428):
\* clean_bytes + "\n" + tag(checksum of clean_bytes) + "\n"
ToWrite(final) ==
  LET clean_bytes == StripTags(final)
      checksum_value == CalculateCleanChecksum(clean_bytes)
  IN clean_bytes \o <<LF, TagOf(checksum_value), LF>>

(***************************************************************************)
(* Paths.  An absolute path is the sequence of its components; the managed *)
(* root is /r.  A package path is a sequence of components too, ".." and   *)
(* "." included, and starts with "/" when it is absolute.                  *)
(***************************************************************************)
ROOT_DIR == <<"r">>

\* os.path.normpath of an absolute path, components processed left to right
RECURSIVE NormInto(_, _)
NormInto(acc, rest) ==
  IF rest = <<>> THEN acc
  ELSE IF Head(rest) = "." THEN NormInto(acc, Tail(rest))
  ELSE IF Head(rest) = ".."
       THEN NormInto(IF acc = <<>> THEN acc ELSE Front(acc), Tail(rest))
  ELSE NormInto(Append(acc, Head(rest)), Tail(rest))

\* os.path.abspath(os.path.join(base, sub_path))
AbsJoin(base, sub_path) ==
  IF sub_path # <<>> /\ Head(sub_path) = "/" THEN NormInto(<<>>, Tail(sub_path))
  ELSE NormInto(<<>>, base \o sub_path)

IsPrefix(p, q) == Len(p) <= Len(q) /\ SubSeq(q, 1, Len(p)) = p

\* a guard that lets every resolved path through
InsideBaseLax(base, full) == TRUE

\* safe_path: os.path.commonpath([abs_base, full]) == abs_base
InsideBase(base, full) == IsPrefix(base, full)

Dirname(p) == Front(p)
Basename(p) == Last(p)

(***************************************************************************)
(* The file system.  fs maps every path of the model to its state; mtime   *)
(* is kept because backups inherit it (shutil.copy2) and rotation sorts by *)
(* it.                                                                     *)
(***************************************************************************)
OUTSIDE == <<"x">>
PA == <<"r", "a">>
PD == <<"r", "d">>
PDE == <<"r", "d", "e">>
PDEA == <<"r", "d", "e", "a">>
AllPaths == {ROOT_DIR, PA, PD, PDE, PDEA, OUTSIDE}
ManagedPaths == {p \in AllPaths : InsideBase(ROOT_DIR, p) /\ p # ROOT_DIR}

Absent == [kind |-> "absent", data |-> <<>>, mtime |-> 0]
DirState == [kind |-> "dir", data |-> <<>>, mtime |-> 0]
FileOf(data, t) == [kind |-> "file", data |-> data, mtime |-> t]

\* os.path.exists / os.path.isdir
PathExists(f, p) == p = <<>> \/ (p \in AllPaths /\ f[p].kind # "absent")
IsDir(f, p) == p = <<>> \/ (p \in AllPaths /\ f[p].kind = "dir")
IsFile(f, p) == p \in AllPaths /\ f[p].kind = "file"
DirEmpty(f, p) == \A q \in AllPaths : (q # <<>> /\ Dirname(q) = p) => f[q].kind = "absent"

\* The proper ancestors of p that lie in the model, and p itself
Ancestors(p) == {q \in AllPaths : IsPrefix(q, p) /\ q # p}

\* os.makedirs(p, exist_ok=True): [ok, fs]
MakeDirs(f, p) ==
  IF \E q \in Ancestors(p) \cup {p} : f[q].kind = "file"
  THEN [ok |-> FALSE, fs |-> f]
  ELSE [ok |-> TRUE,
        fs |-> [q \in AllPaths |->
                  IF q \in Ancestors(p) \cup {p} /\ f[q].kind = "absent"
                  THEN DirState ELSE f[q]]]

\* ensure_parent_dir(path): [ok, fs]
EnsureParentDir(f, p) ==
  IF PathExists(f, Dirname(p)) THEN [ok |-> TRUE, fs |-> f]
  ELSE MakeDirs(f, Dirname(p))

\* _read_file_with_retry(path, logger, attempts: int = 3, delay: float = 0.2)
ATTEMPTS == 3

\* The loop of _read_file_with_retry from a given attempt on: an absent path
\* returns None, a file its bytes; a directory makes open() raise, which is
\* caught and retried until the attempts are used up, and then the last
\* error is raised.  [ok, bytes, attempts made]
RECURSIVE ReadAttempt(_, _, _)
ReadAttempt(f, p, attempt) ==
  IF ~PathExists(f, p) THEN [ok |-> TRUE, bytes |-> NoneBytes, attempts |-> attempt]
  ELSE IF IsDir(f, p)
  THEN IF attempt < ATTEMPTS THEN ReadAttempt(f, p, attempt + 1)
       ELSE [ok |-> FALSE, bytes |-> NoneBytes, attempts |-> attempt]
  ELSE [ok |-> TRUE, bytes |-> f[p].data, attempts |-> attempt]

\* a loop in which the test for an absent path is subject to the retries too
ReadFileRetryingAbsent(f, p) ==
  IF ~PathExists(f, p) THEN [ok |-> TRUE, bytes |-> NoneBytes, attempts |-> ATTEMPTS]
  ELSE ReadAttempt(f, p, 1)

ReadFileWithRetry(f, p) == ReadAttempt(f, p, 1)

(***************************************************************************)
(* The backup store: the set of backup files in BACKUP_DIR, each named by  *)
(* the base name of its source and a one-second timestamp.                 *)
(***************************************************************************)
\* create_backup_and_rotate(..., max_backups: int = 5)
MAX_BACKUPS == 5

NoBackup == [base |-> "", ts |-> -1]
BackupRef(b) == [base |-> b.base, ts |-> b.ts]
BackupAt(bk, ref) == {b \in bk : BackupRef(b) = ref}

\* sorted(glob(pattern), key=os.path.getmtime) and the pop(0) loop: the
\* stores that can remain; equal mtimes leave the order to the directory
\* listing.
RotateChoices(bk, base) ==
  LET same == {b \in bk : b.base = base}
      excess == Cardinality(same) - MAX_BACKUPS
  IN IF excess <= 0 THEN {bk}
     ELSE {bk \ D : D \in {E \in SUBSET same :
                             /\ Cardinality(E) = excess
                             /\ \A d \in E : \A k \in same \ E : d.mtime <= k.mtime}}

\* create_backup_and_rotate(file_path, BACKUP_DIR) for an existing file at
\* time t: the possible [store, ref] results.  shutil.copy2 overwrites a
\* backup of the same name and copies the source's mtime.
CreateBackupAndRotate(f, bk, p, t) ==
  LET ref == [base |-> Basename(p), ts |-> t]
      copy == [base |-> ref.base, ts |-> t, data |-> f[p].data, mtime |-> f[p].mtime]
      stored == (bk \ BackupAt(bk, ref)) \cup {copy}
  IN {[store |-> s, ref |-> ref] : s \in RotateChoices(stored, ref.base)}

(***************************************************************************)
(* Modification packages.                                                  *)
(***************************************************************************)
NoExpected == <<-1>>
NoContent == <<<<-1>>>>

\* 'content' of an operation that is not APPEND_TO_JSON_ARRAY, as a JSON value
NoJson == [list |-> FALSE, items |-> <<>>]

Op(action, path, content, expected) ==
  [action |-> action, path |-> path, content |-> content, json |-> NoJson,
   pattern |-> <<>>, replacement |-> <<>>, expected |-> expected]

ReplaceOp(path, pattern, replacement, expected) ==
  [action |-> "REPLACE_IN_FILE", path |-> path, content |-> NoContent, json |-> NoJson,
   pattern |-> pattern, replacement |-> replacement, expected |-> expected]

\* APPEND_TO_JSON_ARRAY whose content is the array `items` (is_list) or the
\* scalar items[1]
JsonOp(path, is_list, items, expected) ==
  [action |-> "APPEND_TO_JSON_ARRAY", path |-> path, content |-> NoContent,
   json |-> [list |-> is_list, items |-> items],
   pattern |-> <<>>, replacement |-> <<>>, expected |-> expected]

\* payloads: "x", a 200-byte text, another 200-byte text
CShort == <<ChX>>
CLong == <<BLKX, BLKX>>
CLong2 == <<BLKY, BLKY>>

\* The operations a package of the model is made of.
Ops ==
  {Op("CREATE_FILE", <<"a">>, CShort, NoExpected),
   Op("MODIFY_FILE", <<"a">>, CLong, NoExpected),
   Op("MODIFY_FILE", <<"a">>, CLong2, NoExpected),
   Op("MODIFY_FILE", <<"a">>, CShort, NoExpected),
   Op("APPEND_TO_FILE", <<"a">>, CShort, NoExpected),
   Op("DELETE_FILE", <<"a">>, NoContent, NoExpected),
   ReplaceOp(<<"a">>, <<ChX>>, <<ChY>>, NoExpected),
   Op("MODIFY_FILE", <<"a">>, CLong, EMPTY_FILE_CHECKSUM),
   Op("MODIFY_FILE", <<"a">>, CLong2, Sha256(CLong)),
   Op("CREATE_FILE", <<"a">>, CLong, Sha256(CShort)),
   Op("CREATE_DIRECTORY", <<"d">>, NoContent, EMPTY_FILE_CHECKSUM),
   Op("CREATE_DIRECTORY", <<"d">>, NoContent, NoExpected),
   Op("CREATE_FILE", <<"d", "e", "a">>, CShort, NoExpected),
   Op("MODIFY_FILE", <<"d", "e", "a">>, CLong, NoExpected),
   Op("CREATE_FILE", <<"..", "x">>, CShort, NoExpected),
   Op("DELETE_FILE", <<"d", "..", "..", "x">>, NoContent, NoExpected)}

(***************************************************************************)
(* State.                                                                  *)
(***************************************************************************)
VARIABLES
  now,         \* the wall clock, in seconds
  fs,          \* the file system
  backups,     \* the files of BACKUP_DIR
  lockfile,    \* LOCK_FILE_PATH: [exists, owner (the process that created it), pid (its content)]
  lpc,         \* where each engine process is in main()
  has_txn,     \* main's `transaction` is not None
  dry_run,     \* args.dry_run
  batch,       \* the operations handed to process_operation so far, in order
  i,           \* how many operations execute() has started
  undo_log,    \* Transaction.undo_log
  receipt,     \* Transaction.receipt
  rb,          \* rollback: index of the next undo record to replay
  emitted,     \* the receipt of this run: "none" | "ok" (saved) | "failed"
  pre,         \* the file system when the transaction was created
  err,         \* the exception that made execute() fail
  undo_trace,  \* the indices of the undo records replayed, in replay order
  undo_failed, \* how many replayed undo records were not reverted
  run,         \* 1: the package is applied; 2: the same package is applied again
  wpc,         \* where the writer of one file is (lines 429-434)
  wtmp,        \* the writer's temporary file: [exists, data]
  wnew,        \* the bytes the writer has to put at the target
  wold,        \* the state of the target when the writer started
  pool,        \* the operations a package of this run is made of
  input,       \* the arguments of the function applied on its own
  output,      \* its results so far
  acquired,    \* the processes whose exclusive creation of the lock file succeeded
  receipts,    \* RECEIPT_DIR: the receipt file of each one-second timestamp
  tamper,      \* another program writes to the files of the tree during the run
  read_attempts \* the attempts made by the last read of a target (line 294)

(***************************************************************************)
(* Transaction.process_operation, as a function of the state it reads:     *)
(* the set of results one operation can have.  A result is                 *)
(*   res      "SUCCESS" | "NO_CHANGE" | "FAIL" (an exception is raised)    *)
(*   err      the kind of exception                                        *)
(*   fs, backups   the file system and backup store it leaves              *)
(*   undo     the undo records it appended                                 *)
(*   reason   the receipt entry's reason ("" when it has none)             *)
(*   upd      whether the path is added to updated_files                   *)
(***************************************************************************)
Raise(kind, f, bk, undo) ==
  [res |-> "FAIL", err |-> kind, fs |-> f, backups |-> bk, undo |-> undo,
   reason |-> "", upd |-> FALSE]

Return(res, reason, f, bk, undo, upd) ==
  [res |-> res, err |-> "", fs |-> f, backups |-> bk, undo |-> undo,
   reason |-> reason, upd |-> upd]

RestoreRecord(p, ref) == [action |-> "RESTORE_FILE", path |-> p, backup |-> ref]
DeleteNewRecord(p) == [action |-> "DELETE_NEWLY_CREATED_FILE", path |-> p, backup |-> NoBackup]
DeleteDirRecord(p) == [action |-> "DELETE_DIR_IF_CREATED", path |-> p, backup |-> NoBackup]

\* lines 360-371: DELETE_FILE
DeleteFileBranch(f, bk, full, t, dry) ==
  IF PathExists(f, full)
  THEN {Return("SUCCESS", "",
               IF dry THEN f ELSE [f EXCEPT ![full] = Absent],
               b.store, <<RestoreRecord(full, b.ref)>>, FALSE)
          : b \in CreateBackupAndRotate(f, bk, full, t)}
  ELSE {Return("SUCCESS", "", f, bk, <<>>, FALSE)}

\* lines 373-385: CREATE_DIRECTORY
CreateDirectoryBranch(f, bk, full, dry) ==
  IF PathExists(f, full) /\ ~IsDir(f, full) THEN {Raise("VALUE_ERROR", f, bk, <<>>)}
  ELSE IF ~PathExists(f, full)
  THEN IF dry THEN {Return("SUCCESS", "", f, bk, <<DeleteDirRecord(full)>>, FALSE)}
       ELSE LET md == MakeDirs(f, full)
            IN IF ~md.ok THEN {Raise("OS_ERROR", f, bk, <<>>)}
               ELSE {Return("SUCCESS", "", md.fs, bk, <<DeleteDirRecord(full)>>, FALSE)}
  ELSE {Return("SUCCESS", "", f, bk, <<>>, FALSE)}

\* What another program can leave at the target between os.replace (line
\* 434) and the read-back (line 437): nothing, other bytes, or a blank
\* before the bytes written.
Foreign == <<DOT, ChY>>
AtReadBack(to_write) ==
  IF tamper THEN {to_write, Foreign, <<SP>> \o to_write} ELSE {to_write}

\* lines 423-440: the production write of final_content_bytes and its
\* read-back verification, after the undo records were appended
ProductionWrite(f, bk, undo, full, final, t) ==
  IF ~IsDir(f, Dirname(full)) THEN {Raise("OS_ERROR", f, bk, undo)}
  ELSE LET clean_bytes == StripTags(final)
           checksum_value == CalculateCleanChecksum(clean_bytes)
       IN UNION {LET written == [f EXCEPT ![full] = FileOf(on_disk, t)]
                     rd == ReadFileWithRetry(written, full)
                     post_bytes == IF rd.bytes = NoneBytes THEN <<>> ELSE rd.bytes
                     post_clean == CalculateCleanChecksum(StripTags(post_bytes))
                 IN IF post_clean # checksum_value
                    THEN {Raise("VERIFY_FAILED", written, bk, undo)}
                    ELSE {Return("SUCCESS", "", written, bk, undo, TRUE)}
                   : on_disk \in AtReadBack(ToWrite(final))}

\* lines 390-445: guard, no-change test, backup, write
WriteBranch(op, f, bk, full, original, final, t, dry) ==
  IF /\ op.action \in {"MODIFY_FILE", "REPLACE_IN_FILE"}
     /\ original # NoneBytes /\ original # <<>>
     /\ DetectTruncationOrPlaceholder(original, final)
  THEN {Raise("DATA_LOSS_GUARD", f, bk, <<>>)}
  ELSE IF CalculateCleanChecksum(StripTags(original)) = CalculateCleanChecksum(StripTags(final))
  THEN {Return("NO_CHANGE", "", f, bk, <<>>, FALSE)}
  ELSE LET ep == EnsureParentDir(f, full)
       IN IF ~ep.ok THEN {Raise("OS_ERROR", f, bk, <<>>)}
          ELSE IF original # NoneBytes /\ original # <<>>
          THEN UNION {IF dry THEN {Return("SUCCESS", "", ep.fs, b.store,
                                          <<RestoreRecord(full, b.ref)>>, TRUE)}
                      ELSE ProductionWrite(ep.fs, b.store, <<RestoreRecord(full, b.ref)>>,
                                           full, final, t)
                        : b \in CreateBackupAndRotate(ep.fs, bk, full, t)}
          ELSE IF dry THEN {Return("SUCCESS", "", ep.fs, bk, <<DeleteNewRecord(full)>>, TRUE)}
          ELSE ProductionWrite(ep.fs, bk, <<DeleteNewRecord(full)>>, full, final, t)

\* lines 309-388: dispatch on the action
Dispatch(op, f, bk, full, original, t, dry) ==
  IF op.action \in {"CREATE_FILE", "MODIFY_FILE"}
  THEN IF op.content = NoContent THEN {Raise("VALUE_ERROR", f, bk, <<>>)}
       ELSE WriteBranch(op, f, bk, full, original, op.content, t, dry)
  ELSE IF op.action = "APPEND_TO_FILE"
  THEN IF op.content = NoContent THEN {Raise("VALUE_ERROR", f, bk, <<>>)}
       ELSE WriteBranch(op, f, bk, full, original,
                        (IF original = NoneBytes THEN <<>> ELSE original) \o op.content,
                        t, dry)
  ELSE IF op.action = "APPEND_TO_JSON_ARRAY"
  THEN LET parsed == IF original = NoneBytes THEN [ok |-> TRUE, list |-> TRUE, items |-> <<>>]
                     ELSE JsonLoads(DecodeFileContent(original))
       IN IF ~parsed.ok \/ ~parsed.list THEN {Raise("VALUE_ERROR", f, bk, <<>>)}
          ELSE WriteBranch(op, f, bk, full, original,
                           JsonDumps(JsonAppend(parsed.items, op.json)), t, dry)
  ELSE IF op.action = "REPLACE_IN_FILE"
  THEN IF original = NoneBytes THEN {Raise("FILE_NOT_FOUND", f, bk, <<>>)}
       ELSE LET r == ReplaceInFileLogic(original, op.pattern, op.replacement)
            IN IF r.count = 0
               THEN {Return("NO_CHANGE", "pattern not found", f, bk, <<>>, FALSE)}
               ELSE WriteBranch(op, f, bk, full, original, r.bytes, t, dry)
  ELSE IF op.action = "DELETE_FILE" THEN DeleteFileBranch(f, bk, full, t, dry)
  ELSE IF op.action = "CREATE_DIRECTORY" THEN CreateDirectoryBranch(f, bk, full, dry)
  ELSE {Raise("VALUE_ERROR", f, bk, <<>>)}

\* process_operation without the comparison of lines 302-303
ProcessOperationResultsUnchecked(op, f, bk, t, dry) ==
  LET full == AbsJoin(ROOT_DIR, op.path)
  IN IF op.action = "" \/ op.path = <<>> THEN {Raise("VALUE_ERROR", f, bk, <<>>)}
     ELSE IF ~InsideBase(ROOT_DIR, full) THEN {Raise("SECURITY", f, bk, <<>>)}
     ELSE LET rd == ReadFileWithRetry(f, full)
              original == rd.bytes
          IN IF ~rd.ok THEN {Raise("IO_ERROR", f, bk, <<>>)}
             ELSE IF op.expected = NoExpected /\ op.action # "CREATE_FILE"
                     /\ original = NoneBytes
             THEN {Raise("STATE_CONFLICT_MISSING", f, bk, <<>>)}
             ELSE IF op.expected = NoExpected /\ op.action = "CREATE_FILE"
                     /\ original # NoneBytes
             THEN {Raise("STATE_CONFLICT_EXISTS", f, bk, <<>>)}
             ELSE Dispatch(op, f, bk, full, original, t, dry)

\* lines 284-307: path resolution, read, expected-checksum logic
ProcessOperationResults(op, f, bk, t, dry) ==
  LET full == AbsJoin(ROOT_DIR, op.path)
  IN IF op.action = "" \/ op.path = <<>> THEN {Raise("VALUE_ERROR", f, bk, <<>>)}
     ELSE IF ~InsideBase(ROOT_DIR, full) THEN {Raise("SECURITY", f, bk, <<>>)}
     ELSE LET rd == ReadFileWithRetry(f, full)
              original == rd.bytes
              actual_checksum == CalculateCleanChecksum(original)
          IN IF ~rd.ok THEN {Raise("IO_ERROR", f, bk, <<>>)}
             ELSE IF op.expected = NoExpected /\ op.action # "CREATE_FILE"
                     /\ original = NoneBytes
             THEN {Raise("STATE_CONFLICT_MISSING", f, bk, <<>>)}
             ELSE IF op.expected # NoExpected /\ actual_checksum # op.expected
             THEN {Raise("STATE_CONFLICT_CHECKSUM", f, bk, <<>>)}
             ELSE IF op.expected = NoExpected /\ op.action = "CREATE_FILE"
                     /\ original # NoneBytes
             THEN {Raise("STATE_CONFLICT_EXISTS", f, bk, <<>>)}
             ELSE Dispatch(op, f, bk, full, original, t, dry)

(***************************************************************************)
(* Transaction.rollback: the effect of replaying one undo record.          *)
(*   raised   an exception reached the handler that appends to             *)
(*            rollback_errors                                              *)
(*   failed   the record was not reverted                                  *)
(***************************************************************************)
UndoResult(rec, f, bk) ==
  IF rec.action = "RESTORE_FILE"
  THEN \* shutil.move(backup_path, original_path)
       IF BackupAt(bk, rec.backup) = {} \/ ~IsDir(f, Dirname(rec.path))
       THEN [fs |-> f, backups |-> bk, raised |-> TRUE, failed |-> TRUE]
       ELSE IF IsDir(f, rec.path)
       THEN \* the backup file is moved into the directory
            [fs |-> f, backups |-> bk \ BackupAt(bk, rec.backup),
             raised |-> FALSE, failed |-> TRUE]
       ELSE LET b == CHOOSE x \in BackupAt(bk, rec.backup) : TRUE
            IN [fs |-> [f EXCEPT ![rec.path] = FileOf(b.data, b.mtime)],
                backups |-> bk \ {b}, raised |-> FALSE, failed |-> FALSE]
  ELSE IF rec.action = "DELETE_NEWLY_CREATED_FILE"
  THEN IF ~PathExists(f, rec.path)
       THEN [fs |-> f, backups |-> bk, raised |-> FALSE, failed |-> FALSE]
       ELSE IF IsDir(f, rec.path)
       THEN [fs |-> f, backups |-> bk, raised |-> TRUE, failed |-> TRUE]
       ELSE [fs |-> [f EXCEPT ![rec.path] = Absent], backups |-> bk,
             raised |-> FALSE, failed |-> FALSE]
  ELSE \* DELETE_DIR_IF_CREATED: os.rmdir; an OSError is only logged
       IF ~IsDir(f, rec.path)
       THEN [fs |-> f, backups |-> bk, raised |-> FALSE, failed |-> FALSE]
       ELSE IF DirEmpty(f, rec.path)
       THEN [fs |-> [f EXCEPT ![rec.path] = Absent], backups |-> bk,
             raised |-> FALSE, failed |-> FALSE]
       ELSE [fs |-> f, backups |-> bk, raised |-> FALSE, failed |-> TRUE]

txnVars == <<has_txn, dry_run, batch, i, undo_log, receipt, rb, emitted, pre, err,
             undo_trace, undo_failed, run, pool, tamper, read_attempts>>
writerVars == <<wpc, wtmp, wnew, wold>>
pureVars == <<input, output>>
lockVars == <<lockfile, lpc>>
diskVars == <<now, fs, backups>>
vars == <<now, fs, backups, lockfile, lpc, has_txn, dry_run, batch, i, undo_log,
          receipt, rb, emitted, pre, err, undo_trace, undo_failed, run, wpc, wtmp,
          wnew, wold, pool, input, output, acquired, receipts, tamper,
          read_attempts>>

\* Number of engine processes of the lock protocol.
NProcs == 4
Procs == 1..NProcs
\* The process whose transaction is modelled step by step.
Me == 1
\* The pid of an engine process that crashed before any process of the
\* model started.
OrphanPid == 0

NoLock == [exists |-> FALSE, owner |-> -1, pid |-> -1]
NoPid == -1
\* the marker a crashed run left behind
OrphanLock == [exists |-> TRUE, owner |-> OrphanPid, pid |-> OrphanPid]

\* psutil.pid_exists(pid)
PidExists(pid) == pid \in Procs /\ lpc[pid] \notin {"init", "done", "killed"}

Terminal == {"SUCCESS", "NO_OP", "FAIL"}

NoReceipt ==
  [status |-> "NONE", actions |-> <<>>, updated_files |-> <<>>, rollback_errors |-> <<>>]
\* Transaction.__init__
NewReceipt ==
  [status |-> "PENDING", actions |-> <<>>, updated_files |-> <<>>, rollback_errors |-> <<>>]

SeqRange(s) == {s[k] : k \in 1..Len(s)}

\* strftime('%Y%m%dT%H%M%SZ'): the timestamps a file name can carry
Stamps == 0..MaxClock
\* A file of RECEIPT_DIR: absent, or what a run left in it; whole is FALSE
\* when open(receipt_path, 'w') truncated the file and json.dump did not
\* finish.
NoReceiptFile == [exists |-> FALSE, whole |-> FALSE, run |-> 0, receipt |-> NoReceipt]
ReceiptFile(r, whole, rcpt) == [exists |-> TRUE, whole |-> whole, run |-> r, receipt |-> rcpt]

\* The trees a run may start from.
TreeOf(a, d, de, dea) ==
  [p \in AllPaths |->
     IF p = ROOT_DIR THEN DirState
     ELSE IF p = OUTSIDE THEN FileOf(<<ChX>>, 0)
     ELSE IF p = PA THEN a
     ELSE IF p = PD THEN d
     ELSE IF p = PDE THEN de
     ELSE dea]

InitTrees ==
  {TreeOf(Absent, Absent, Absent, Absent),
   TreeOf(FileOf(<<ChX>>, 0), Absent, Absent, Absent),
   TreeOf(FileOf(<<>>, 0), Absent, Absent, Absent),
   TreeOf(FileOf(ToWrite(CLong), 0), DirState, DirState, FileOf(<<ChY>>, 0))}

InitCommon ==
  /\ now = 0
  /\ backups = {}
  /\ lpc = [p \in Procs |-> "init"]
  /\ has_txn = FALSE
  /\ dry_run = FALSE
  /\ batch = <<>>
  /\ i = 0
  /\ undo_log = <<>>
  /\ receipt = NoReceipt
  /\ rb = 0
  /\ emitted = "none"
  /\ err = ""
  /\ undo_trace = <<>>
  /\ undo_failed = 0
  /\ run = 1
  /\ input = <<>>
  /\ output = {}
  /\ acquired = {}
  /\ receipts = [t \in Stamps |-> NoReceiptFile]

NoTemp == [exists |-> FALSE, data |-> <<>>]

WriterIdle ==
  /\ wpc = "idle"
  /\ wtmp = NoTemp
  /\ wnew = <<>>
  /\ wold = Absent

Init ==
  /\ InitCommon
  /\ pool = Ops
  /\ tamper = FALSE
  /\ read_attempts = 0
  /\ fs \in InitTrees
  /\ pre = fs
  /\ lockfile \in {NoLock, OrphanLock}
  /\ WriterIdle

(***************************************************************************)
(* main(): the lock, lines 463-494.                                        *)
(***************************************************************************)
\* open(LOCK_FILE_PATH, 'x'): exclusive creation, or FileExistsError
AcquireLock(p) ==
  /\ lpc[p] = "init"
  /\ IF lockfile.exists
     THEN /\ lpc' = [lpc EXCEPT ![p] = "finally"]
          /\ UNCHANGED <<lockfile, acquired>>
     ELSE /\ lockfile' = [exists |-> TRUE, owner |-> p, pid |-> NoPid]
          /\ lpc' = [lpc EXCEPT ![p] = "created"]
          /\ acquired' = acquired \cup {p}
  /\ UNCHANGED <<diskVars, txnVars, writerVars,
                 pureVars, receipts>>

\* lf.write(str(os.getpid())) reaches the file when the with-block closes it
WritePid(p) ==
  /\ lpc[p] = "created"
  /\ lockfile' = IF lockfile.exists /\ lockfile.owner = p
                 THEN [lockfile EXCEPT !.pid = p] ELSE lockfile
  /\ lpc' = [lpc EXCEPT ![p] = "held"]
  /\ UNCHANGED <<diskVars, txnVars, writerVars,
                 pureVars, acquired, receipts>>

\* a finally block that removes the marker of a dead process only
FinCheckDeadOnly(p) ==
  /\ lpc[p] = "finally"
  /\ lpc' = [lpc EXCEPT ![p] =
               IF /\ lockfile.exists
                  /\ lockfile.pid # NoPid
                  /\ ~PidExists(lockfile.pid)
               THEN "remove" ELSE "post"]
  /\ UNCHANGED <<lockfile, diskVars, txnVars, writerVars,
                 pureVars, acquired, receipts>>

\* finally: os.path.exists, read the pid, compare with os.getpid() and
\* psutil.pid_exists; an unreadable pid raises and is only logged
FinCheck(p) ==
  /\ lpc[p] = "finally"
  /\ lpc' = [lpc EXCEPT ![p] =
               IF /\ lockfile.exists
                  /\ lockfile.pid # NoPid
                  /\ (lockfile.pid = p \/ ~PidExists(lockfile.pid))
               THEN "remove" ELSE "post"]
  /\ UNCHANGED <<lockfile, diskVars, txnVars, writerVars,
                 pureVars, acquired, receipts>>

\* os.remove(LOCK_FILE_PATH); FileNotFoundError is only logged
FinRemove(p) ==
  /\ lpc[p] = "remove"
  /\ lockfile' = NoLock
  /\ lpc' = [lpc EXCEPT ![p] = "post"]
  /\ UNCHANGED <<diskVars, txnVars, writerVars,
                 pureVars, acquired, receipts>>

\* lines 497-502: receipt_name carries the second of utcnow();
\* open(receipt_path, 'w') creates or truncates the file of that name and
\* json.dump writes into it.
\*   "written"    the dump finished
\*   "truncated"  the file was opened and the dump did not finish
\*   "unopened"   open() raised
WriteOutcomes == {"written", "truncated", "unopened"}
ReceiptDirAfter(dir, t, r, rcpt, how) ==
  IF how = "unopened" THEN dir
  ELSE [dir EXCEPT ![t] = ReceiptFile(r, how = "written", rcpt)]

\* an emission whose failure is written back into the receipt
EmitReceiptDowngrade(p) ==
  /\ lpc[p] = "post"
  /\ lpc' = [lpc EXCEPT ![p] = "done"]
  /\ IF p = Me /\ has_txn
     THEN \E how \in WriteOutcomes :
            /\ emitted' = IF how = "written" THEN "ok" ELSE "failed"
            /\ receipt' = IF how = "written" THEN receipt
                          ELSE [receipt EXCEPT !.status = "FAIL"]
            /\ receipts' = ReceiptDirAfter(receipts, now, run, receipt, how)
     ELSE UNCHANGED <<emitted, receipt, receipts>>
  /\ UNCHANGED <<lockfile, diskVars, has_txn, dry_run, batch, i, undo_log, rb,
                 pre, err, undo_trace, undo_failed, run, writerVars,
                 pool, tamper, read_attempts, pureVars, acquired>>

\* lines 496-504: the receipt is written when a transaction exists; a
\* failure to write it is only logged
EmitReceipt(p) ==
  /\ lpc[p] = "post"
  /\ lpc' = [lpc EXCEPT ![p] = "done"]
  /\ IF p = Me /\ has_txn
     THEN \E how \in WriteOutcomes :
            /\ emitted' = IF how = "written" THEN "ok" ELSE "failed"
            /\ receipts' = ReceiptDirAfter(receipts, now, run, receipt, how)
     ELSE UNCHANGED <<emitted, receipts>>
  /\ UNCHANGED <<lockfile, diskVars, has_txn, dry_run, batch, i, undo_log, receipt, rb,
                 pre, err, undo_trace, undo_failed, run, writerVars,
                 pool, tamper, read_attempts, pureVars, acquired>>

(***************************************************************************)
(* main(): package load and Transaction, lines 468-473 and 222-445.        *)
(***************************************************************************)
\* json.load / jsonschema.validate raise, or Transaction(...) is created
LoadPackage ==
  /\ lpc[Me] = "held"
  /\ \E outcome \in (IF run = 1 THEN {"invalid", "apply", "dry-run"} ELSE {"apply"}) :
       IF outcome = "invalid"
       THEN /\ lpc' = [lpc EXCEPT ![Me] = "finally"]
            /\ UNCHANGED <<has_txn, dry_run, receipt, pre>>
       ELSE /\ lpc' = [lpc EXCEPT ![Me] = "exec"]
            /\ has_txn' = TRUE
            /\ dry_run' = (outcome = "dry-run")
            /\ receipt' = NewReceipt
            /\ pre' = fs
  /\ UNCHANGED <<lockfile, diskVars, batch, i, undo_log, rb, emitted, err, undo_trace,
                 undo_failed, run, writerVars,
                 pool, tamper, read_attempts, pureVars, acquired, receipts>>

\* lines 286-294: the attempts the read of the target makes, 0 when
\* process_operation raises before it reads
ReadAttemptsOf(op, f) ==
  LET full == AbsJoin(ROOT_DIR, op.path)
  IN IF op.action = "" \/ op.path = <<>> \/ ~InsideBase(ROOT_DIR, full) THEN 0
     ELSE ReadFileWithRetry(f, full).attempts

\* a process_operation whose no-change returns leave the receipt alone
RecordActionWrittenOnly(rcpt, op, out) ==
  IF out.res = "NO_CHANGE" THEN rcpt
  ELSE [rcpt EXCEPT
          !.actions = Append(@, [action |-> op.action, path |-> op.path,
                                 status |-> out.res, reason |-> out.reason]),
          !.updated_files =
             IF out.upd /\ op.path \notin SeqRange(@) THEN Append(@, op.path) ELSE @]

\* lines 358, 370, 384, 408, 443-445: each return of process_operation
\* appends one entry to receipt['actions']; the last one also records the path
RecordAction(rcpt, op, out) ==
  [rcpt EXCEPT
     !.actions = Append(@, [action |-> op.action, path |-> op.path,
                            status |-> out.res, reason |-> out.reason]),
     !.updated_files =
        IF out.upd /\ op.path \notin SeqRange(@) THEN Append(@, op.path) ELSE @]

\* a loop that records the failure of an operation and goes on to the next
ProcessOperationContinue ==
  /\ lpc[Me] = "exec"
  /\ i < (IF run = 1 THEN MaxOps ELSE Len(batch))
  /\ \E op \in (IF run = 1 THEN pool ELSE {batch[i + 1]}) : \E t \in {now, IF now < MaxClock THEN now + 1 ELSE now} :
       \E out \in ProcessOperationResults(op, fs, backups, t, dry_run) :
         /\ now' = t
         /\ read_attempts' = ReadAttemptsOf(op, fs)
         /\ batch' = IF run = 1 THEN Append(batch, op) ELSE batch
         /\ i' = i + 1
         /\ fs' = out.fs
         /\ backups' = out.backups
         /\ undo_log' = undo_log \o out.undo
         /\ IF out.res = "FAIL"
            THEN /\ receipt' = [receipt EXCEPT !.status = "FAIL"]
                 /\ err' = out.err
            ELSE /\ receipt' = RecordAction(receipt, op, out)
                 /\ UNCHANGED err
  /\ UNCHANGED <<lockfile, lpc, rb, has_txn, dry_run, emitted, pre, undo_trace, undo_failed,
                 run, writerVars,
                 pool, tamper, pureVars, acquired, receipts>>

\* One iteration of the loop of execute(): process_operation(i + 1, op); an
\* exception ends the loop, sets FAIL and starts rollback().
ProcessOperation ==
  /\ lpc[Me] = "exec"
  /\ i < (IF run = 1 THEN MaxOps ELSE Len(batch))
  /\ \E op \in (IF run = 1 THEN pool ELSE {batch[i + 1]}) : \E t \in {now, IF now < MaxClock THEN now + 1 ELSE now} :
       \E out \in ProcessOperationResults(op, fs, backups, t, dry_run) :
         /\ now' = t
         /\ read_attempts' = ReadAttemptsOf(op, fs)
         /\ batch' = IF run = 1 THEN Append(batch, op) ELSE batch
         /\ i' = i + 1
         /\ fs' = out.fs
         /\ backups' = out.backups
         /\ undo_log' = undo_log \o out.undo
         /\ IF out.res = "FAIL"
            THEN /\ receipt' = [receipt EXCEPT !.status = "FAIL"]
                 /\ err' = out.err
                 /\ rb' = Len(undo_log')
                 /\ lpc' = [lpc EXCEPT ![Me] = "rollback"]
            ELSE /\ receipt' = RecordAction(receipt, op, out)
                 /\ UNCHANGED <<err, rb, lpc>>
  /\ UNCHANGED <<lockfile, has_txn, dry_run, emitted, pre, undo_trace, undo_failed, run,
                 writerVars,
                 pool, tamper, pureVars, acquired, receipts>>

\* lines 242-253: the loop is over (the package had i operations)
FinalStatus(operations, updated_files, dry) ==
  IF operations = <<>> /\ ~dry THEN "NO_OP"
  ELSE IF updated_files = <<>> /\ operations # <<>> THEN "NO_OP"
  ELSE "SUCCESS"

FinishExecute ==
  /\ lpc[Me] = "exec"
  /\ run = 2 => i = Len(batch)
  /\ receipt' = [receipt EXCEPT
                   !.status = FinalStatus(batch, receipt.updated_files, dry_run)]
  /\ lpc' = [lpc EXCEPT ![Me] = "finally"]
  /\ UNCHANGED <<lockfile, diskVars, has_txn, dry_run, batch, i, undo_log, rb, emitted,
                 pre, err, undo_trace, undo_failed, run, writerVars,
                 pool, tamper, read_attempts, pureVars, acquired, receipts>>

\* One iteration of the loop of rollback(): reversed(self.undo_log)
RollbackStep ==
  /\ lpc[Me] = "rollback"
  /\ rb > 0
  /\ LET r == UndoResult(undo_log[rb], fs, backups)
     IN /\ fs' = r.fs
        /\ backups' = r.backups
        /\ receipt' = IF r.raised
                      THEN [receipt EXCEPT !.rollback_errors = Append(@, undo_log[rb].action)]
                      ELSE receipt
        /\ undo_failed' = undo_failed + (IF r.failed THEN 1 ELSE 0)
  /\ undo_trace' = Append(undo_trace, rb)
  /\ rb' = rb - 1
  /\ UNCHANGED <<now, lockfile, lpc, has_txn, dry_run, batch, i, undo_log, emitted, pre, err,
                 run, writerVars,
                 pool, tamper, read_attempts, pureVars, acquired, receipts>>

\* rollback() and execute() return
RollbackReturn ==
  /\ lpc[Me] = "rollback"
  /\ rb = 0
  /\ lpc' = [lpc EXCEPT ![Me] = "finally"]
  /\ UNCHANGED <<lockfile, diskVars, txnVars, writerVars,
                 pureVars, acquired, receipts>>

Next ==
  \/ AcquireLock(Me)
  \/ WritePid(Me)
  \/ LoadPackage
  \/ ProcessOperation
  \/ FinishExecute
  \/ RollbackStep
  \/ RollbackReturn
  \/ FinCheck(Me)
  \/ FinRemove(Me)
  \/ EmitReceipt(Me)

Spec == Init /\ [][Next]_vars

(***************************************************************************)
(* Packages of appending operations, on trees where /r/a is absent, holds  *)
(* JSON text or holds other text.                                          *)
(***************************************************************************)
JsonOps ==
  {JsonOp(<<"a">>, TRUE, <<E3, E1>>, NoExpected),
   JsonOp(<<"a">>, FALSE, <<E3>>, NoExpected),
   JsonOp(<<"a">>, TRUE, <<>>, NoExpected),
   JsonOp(<<"a">>, TRUE, <<E3, E1>>, EMPTY_FILE_CHECKSUM),
   Op("APPEND_TO_FILE", <<"a">>, CShort, NoExpected),
   Op("APPEND_TO_FILE", <<"a">>, CShort, EMPTY_FILE_CHECKSUM)}

JsonTrees ==
  {TreeOf(Absent, Absent, Absent, Absent),
   TreeOf(FileOf(<<LBR, E1, COMMA, SP, E2, RBR>>, 0), Absent, Absent, Absent),
   TreeOf(FileOf(<<LBR, RBR, LF>>, 0), Absent, Absent, Absent),
   TreeOf(FileOf(JsonDumps(<<E2>>), 0), Absent, Absent, Absent),
   TreeOf(FileOf(<<E1>>, 0), Absent, Absent, Absent),
   TreeOf(FileOf(<<LBR, E1, COMMA, RBR>>, 0), Absent, Absent, Absent),
   TreeOf(FileOf(<<ChX>>, 0), Absent, Absent, Absent)}

InitJson ==
  /\ InitCommon
  /\ pool = JsonOps
  /\ tamper = FALSE
  /\ read_attempts = 0
  /\ fs \in JsonTrees
  /\ pre = fs
  /\ lockfile \in {NoLock, OrphanLock}
  /\ WriterIdle

SpecJson == InitJson /\ [][Next]_vars

(***************************************************************************)
(* Packages of REPLACE_IN_FILE operations on trees where /r/a holds text.  *)
(***************************************************************************)
ReplaceOps ==
  {ReplaceOp(<<"a">>, <<ChX>>, <<ChY>>, NoExpected),
   ReplaceOp(<<"a">>, <<ChX, SP>>, <<ChY, ChY, SP>>, NoExpected),
   ReplaceOp(<<"a">>, <<BLKX>>, <<ChX>>, NoExpected),
   ReplaceOp(<<"a">>, <<ChY>>, <<DOT, DOT, DOT>>, NoExpected),
   ReplaceOp(<<"a">>, <<>>, <<ChY>>, NoExpected)}

ReplaceTrees ==
  {TreeOf(FileOf(<<ChX, SP, ChX>>, 0), Absent, Absent, Absent),
   TreeOf(FileOf(<<SP, SP, ChX, LF>>, 0), Absent, Absent, Absent),
   TreeOf(FileOf(<<ChX, CR, LF, ChX, LF>>, 0), Absent, Absent, Absent),
   TreeOf(FileOf(ToWrite(<<ChX, LF, ChX>>), 0), Absent, Absent, Absent),
   TreeOf(FileOf(<<BLKX, BLKY, BLKY>>, 0), Absent, Absent, Absent)}

InitReplace ==
  /\ InitCommon
  /\ pool = ReplaceOps
  /\ tamper = FALSE
  /\ read_attempts = 0
  /\ fs \in ReplaceTrees
  /\ pre = fs
  /\ lockfile \in {NoLock, OrphanLock}
  /\ WriterIdle

SpecReplace == InitReplace /\ [][Next]_vars

(***************************************************************************)
(* Packages that replace or extend content, on trees where /r/a holds      *)
(* 1000 bytes, 3 bytes, nothing, or is absent.                             *)
(***************************************************************************)
\* n copies of token t
Repeat(t, n) == [k \in 1..n |-> t]

\* 10, 500 and 600 bytes of text
Text10 == Repeat(ChX, 10)
Text500 == Repeat(BLKY, 5)
Text600 == Repeat(BLKY, 6)

GuardOps ==
  {Op("MODIFY_FILE", <<"a">>, Text10, NoExpected),
   Op("MODIFY_FILE", <<"a">>, Text500, NoExpected),
   Op("MODIFY_FILE", <<"a">>, Text600, NoExpected),
   Op("MODIFY_FILE", <<"a">>, <<ChY>>, NoExpected),
   Op("MODIFY_FILE", <<"a">>, Text600 \o <<DOT, DOT, DOT>>, NoExpected),
   Op("MODIFY_FILE", <<"a">>, <<DOT, DOT, DOT>>, EMPTY_FILE_CHECKSUM),
   Op("CREATE_FILE", <<"a">>, <<ChX, DOT, DOT, DOT>>, NoExpected),
   Op("APPEND_TO_FILE", <<"a">>, <<DOT, DOT, DOT>>, NoExpected),
   ReplaceOp(<<"a">>, Repeat(BLKX, 6), <<ChX>>, NoExpected),
   ReplaceOp(<<"a">>, <<BLKX>>, <<ChX>>, NoExpected),
   ReplaceOp(<<"a">>, <<ChY>>, <<DOT, DOT, DOT>>, NoExpected)}

GuardTrees ==
  {TreeOf(FileOf(Repeat(BLKX, 10), 0), Absent, Absent, Absent),
   TreeOf(FileOf(<<ChX, ChY, ChX>>, 0), Absent, Absent, Absent),
   TreeOf(FileOf(<<ChX, ChY>>, 0), Absent, Absent, Absent),
   TreeOf(FileOf(<<>>, 0), Absent, Absent, Absent),
   TreeOf(Absent, Absent, Absent, Absent)}

InitGuard ==
  /\ InitCommon
  /\ pool = GuardOps
  /\ tamper = FALSE
  /\ read_attempts = 0
  /\ fs \in GuardTrees
  /\ pre = fs
  /\ lockfile \in {NoLock, OrphanLock}
  /\ WriterIdle

SpecGuard == InitGuard /\ [][Next]_vars

(***************************************************************************)
(* calculate_clean_checksum applied on its own to a content and to the     *)
(* ways of writing it.                                                     *)
(***************************************************************************)
FpAlphabet == {LF, CR, BOM, SP, ChX, TagOf(Sha256(<<ChX>>))}
FpContents == UNION {[1..n -> FpAlphabet] : n \in 0..MaxLen}

\* the ways a content c is written
WithTag(c) == c \o <<LF, TagOf(CalculateCleanChecksum(c)), LF>>
WithCrlf(c) == LfToCrlf(c)
WithBom(c) == <<BOM>> \o c
WithBlankLines(c) == c \o <<LF, LF>>

Applied(variant) == \E r \in output : r.variant = variant

Fingerprint(variant, data) ==
  /\ ~Applied(variant)
  /\ output' = output \cup {[variant |-> variant, digest |-> CalculateCleanChecksum(data)]}
  /\ UNCHANGED <<lockVars, diskVars, txnVars, writerVars, input, acquired, receipts>>

FpPlain == Fingerprint("plain", input)
FpTagged == Fingerprint("tagged", WithTag(input))
FpCrlf == Fingerprint("crlf", WithCrlf(input))
FpBom == Fingerprint("bom", WithBom(input))
FpBlankLines == Fingerprint("blank", WithBlankLines(input))
FpAbsent == Fingerprint("absent", NoneBytes)

InitFingerprint ==
  /\ now = 0
  /\ backups = {}
  /\ lpc = [p \in Procs |-> "init"]
  /\ has_txn = FALSE
  /\ dry_run = FALSE
  /\ batch = <<>>
  /\ i = 0
  /\ undo_log = <<>>
  /\ receipt = NoReceipt
  /\ rb = 0
  /\ emitted = "none"
  /\ err = ""
  /\ undo_trace = <<>>
  /\ undo_failed = 0
  /\ run = 1
  /\ pool = {}
  /\ tamper = FALSE
  /\ read_attempts = 0
  /\ fs = TreeOf(Absent, Absent, Absent, Absent)
  /\ pre = fs
  /\ lockfile = NoLock
  /\ WriterIdle
  /\ input \in FpContents
  /\ output = {}
  /\ acquired = {}
  /\ receipts = [t \in Stamps |-> NoReceiptFile]

NextFingerprint == FpPlain \/ FpTagged \/ FpCrlf \/ FpBom \/ FpBlankLines \/ FpAbsent

SpecFingerprint == InitFingerprint /\ [][NextFingerprint]_vars

(***************************************************************************)
(* Packages whose contents carry integrity tags, on trees where /r/a is    *)
(* absent, was written by the engine, or ends with a tag of another        *)
(* content or of another spelling.                                         *)
(***************************************************************************)
TagOps ==
  {Op("CREATE_FILE", <<"a">>, <<ChX>>, NoExpected),
   Op("MODIFY_FILE", <<"a">>, <<ChY>>, NoExpected),
   Op("MODIFY_FILE", <<"a">>, <<ChY, LF, TagOf(Sha256(<<ChX>>)), LF>>, NoExpected),
   Op("MODIFY_FILE", <<"a">>, <<ChX, LF, TagOf(Sha256(<<ChX>>)), LF,
                                TagOf(Sha256(<<ChX>>)), LF>>, NoExpected),
   Op("MODIFY_FILE", <<"a">>, <<ChY, LF, LooseTagOf(Sha256(<<ChY>>))>>, NoExpected),
   Op("CREATE_FILE", <<"a">>, <<ChX, LF, LooseTagOf(Sha256(<<ChX>>))>>, NoExpected),
   Op("MODIFY_FILE", <<"a">>, <<BLKX, BLKX, SP>>, NoExpected),
   Op("APPEND_TO_FILE", <<"a">>, <<ChY>>, NoExpected),
   ReplaceOp(<<"a">>, <<ChX>>, <<ChY>>, NoExpected)}

TagTrees ==
  {TreeOf(Absent, Absent, Absent, Absent),
   TreeOf(FileOf(ToWrite(<<ChX>>), 0), Absent, Absent, Absent),
   TreeOf(FileOf(<<ChX, LF, TagOf(Sha256(<<ChY>>)), LF>>, 0), Absent, Absent, Absent),
   TreeOf(FileOf(<<BLKX, BLKX, SP, LooseTagOf(Sha256(<<ChX>>)), LF>>, 0),
          Absent, Absent, Absent),
   TreeOf(FileOf(<<ChX, CR, LF, ChX, CR, LF>>, 0), Absent, Absent, Absent)}

InitTag ==
  /\ InitCommon
  /\ pool = TagOps
  /\ tamper = FALSE
  /\ read_attempts = 0
  /\ fs \in TagTrees
  /\ pre = fs
  /\ lockfile \in {NoLock, OrphanLock}
  /\ WriterIdle

SpecTag == InitTag /\ [][Next]_vars

(***************************************************************************)
(* Packages that back files up into a store that already holds backups of  *)
(* the base name "a", taken before the run; /r/a was last modified after   *)
(* or before the files those backups were copied from.                     *)
(***************************************************************************)
\* a backup named a.<ts>.bak taken k seconds before the run, of a file last
\* modified at m
OldBackup(k, m) == [base |-> "a", ts |-> 0 - k, data |-> <<ChY>>, mtime |-> m]
OldStore(n) == {OldBackup(k, 0 - k) : k \in 1..n}
\* an mtime before that of every old backup
LongAgo == 0 - (MAX_BACKUPS + 1)

RotateStores == {OldStore(0), OldStore(MAX_BACKUPS - 1), OldStore(MAX_BACKUPS)}

RotateOps ==
  {Op("MODIFY_FILE", <<"a">>, CLong, NoExpected),
   Op("MODIFY_FILE", <<"a">>, CLong2, NoExpected),
   Op("APPEND_TO_FILE", <<"a">>, CShort, NoExpected),
   Op("DELETE_FILE", <<"a">>, NoContent, NoExpected),
   Op("MODIFY_FILE", <<"d", "e", "a">>, CLong, NoExpected)}

RotateTrees ==
  {TreeOf(FileOf(<<ChX>>, 0), DirState, DirState, FileOf(<<ChY>>, 0)),
   TreeOf(FileOf(<<ChX>>, LongAgo), DirState, DirState, FileOf(<<ChY>>, 0))}

InitRotate ==
  /\ now = 0
  /\ backups \in RotateStores
  /\ lpc = [p \in Procs |-> "init"]
  /\ has_txn = FALSE
  /\ dry_run = FALSE
  /\ batch = <<>>
  /\ i = 0
  /\ undo_log = <<>>
  /\ receipt = NoReceipt
  /\ rb = 0
  /\ emitted = "none"
  /\ err = ""
  /\ undo_trace = <<>>
  /\ undo_failed = 0
  /\ run = 1
  /\ input = <<>>
  /\ output = {}
  /\ acquired = {}
  /\ receipts = [t \in Stamps |-> NoReceiptFile]
  /\ pool = RotateOps
  /\ tamper = FALSE
  /\ read_attempts = 0
  /\ fs \in RotateTrees
  /\ pre = fs
  /\ lockfile \in {NoLock, OrphanLock}
  /\ WriterIdle

SpecRotate == InitRotate /\ [][Next]_vars

(***************************************************************************)
(* Packages applied while another program writes to the tree: the file     *)
(* read back after a write need not hold the bytes written.                *)
(***************************************************************************)
VerifyOps ==
  {Op("CREATE_FILE", <<"a">>, CShort, NoExpected),
   Op("MODIFY_FILE", <<"a">>, CLong, NoExpected),
   Op("MODIFY_FILE", <<"a">>, CLong2, NoExpected),
   Op("APPEND_TO_FILE", <<"a">>, CShort, NoExpected),
   Op("CREATE_FILE", <<"d", "e", "a">>, CShort, NoExpected),
   Op("DELETE_FILE", <<"a">>, NoContent, NoExpected)}

InitVerify ==
  /\ InitCommon
  /\ pool = VerifyOps
  /\ tamper = TRUE
  /\ read_attempts = 0
  /\ fs \in InitTrees
  /\ pre = fs
  /\ lockfile \in {NoLock, OrphanLock}
  /\ WriterIdle

SpecVerify == InitVerify /\ [][Next]_vars

(***************************************************************************)
(* Applying the same package a second time: a new engine process is        *)
(* started on the tree, backup store and package of a run that ended       *)
(* SUCCESS.                                                                *)
(***************************************************************************)
Rerun ==
  /\ run = 1
  /\ lpc[Me] = "done"
  /\ has_txn /\ ~dry_run
  /\ receipt.status = "SUCCESS"
  /\ run' = 2
  /\ lpc' = [lpc EXCEPT ![Me] = "init"]
  /\ has_txn' = FALSE
  /\ i' = 0
  /\ undo_log' = <<>>
  /\ receipt' = NoReceipt
  /\ rb' = 0
  /\ emitted' = "none"
  /\ err' = ""
  /\ undo_trace' = <<>>
  /\ undo_failed' = 0
  /\ acquired' = acquired \ {Me}
  /\ UNCHANGED <<lockfile, diskVars, dry_run, batch, pre, writerVars,
                 pool, tamper, read_attempts, pureVars, receipts>>

NextRerun == Next \/ Rerun

SpecRerun == Init /\ [][NextRerun]_vars

(***************************************************************************)
(* The lock protocol of main() run by NProcs engine processes; what a      *)
(* process does while it holds the lock is one step here.                  *)
(***************************************************************************)
\* lines 468-473 between the lock and the finally block
Work(p) ==
  /\ lpc[p] = "held"
  /\ lpc' = [lpc EXCEPT ![p] = "finally"]
  /\ UNCHANGED <<lockfile, diskVars, txnVars, writerVars,
                 pureVars, acquired, receipts>>

\* the process is killed: nothing of main() runs any more
Kill(p) ==
  /\ lpc[p] \in {"created", "held", "finally", "remove", "post"}
  /\ lpc' = [lpc EXCEPT ![p] = "killed"]
  /\ UNCHANGED <<lockfile, diskVars, txnVars, writerVars,
                 pureVars, acquired, receipts>>

InitLock ==
  /\ InitCommon
  /\ pool = Ops
  /\ tamper = FALSE
  /\ read_attempts = 0
  /\ fs = TreeOf(Absent, Absent, Absent, Absent)
  /\ pre = fs
  /\ lockfile \in {NoLock, OrphanLock}
  /\ WriterIdle

NextLock ==
  \E p \in Procs :
    \/ AcquireLock(p)
    \/ WritePid(p)
    \/ Work(p)
    \/ FinCheck(p)
    \/ FinRemove(p)
    \/ EmitReceipt(p)
    \/ Kill(p)

SpecLock == InitLock /\ [][NextLock]_vars

(***************************************************************************)
(* One production write, lines 429-434, step by step, with the process     *)
(* killed at any step.  The target is /r/a.                                *)
(***************************************************************************)
\* NamedTemporaryFile('wb', delete=False, dir=dirname(full_path), suffix='.tmp')
WOpenTemp ==
  /\ wpc = "start"
  /\ wtmp' = [exists |-> TRUE, data |-> <<>>]
  /\ wpc' = "opened"
  /\ UNCHANGED <<lockVars, diskVars, txnVars, wnew, wold,
                 pureVars, acquired, receipts>>

\* a writer that opens the target itself and writes into it
WWriteInPlace ==
  /\ wpc = "opened"
  /\ \E k \in 0..Len(wnew) : fs' = [fs EXCEPT ![PA] = FileOf(SubSeq(wnew, 1, k), now)]
  /\ wpc' = "written"
  /\ UNCHANGED <<lockVars, now, backups, txnVars, wtmp, wnew, wold,
                 pureVars, acquired, receipts>>

\* tf.write(to_write): the buffered writer may already have passed a prefix
\* of the bytes to the file
WWrite ==
  /\ wpc = "opened"
  /\ \E k \in 0..Len(wnew) : wtmp' = [wtmp EXCEPT !.data = SubSeq(wnew, 1, k)]
  /\ wpc' = "written"
  /\ UNCHANGED <<lockVars, diskVars, txnVars, wnew, wold,
                 pureVars, acquired, receipts>>

\* tf.flush()
WFlush ==
  /\ wpc = "written"
  /\ wtmp' = [wtmp EXCEPT !.data = wnew]
  /\ wpc' = "flushed"
  /\ UNCHANGED <<lockVars, diskVars, txnVars, wnew, wold,
                 pureVars, acquired, receipts>>

\* os.fsync(tf.fileno()) and the end of the with-block
WFsync ==
  /\ wpc = "flushed"
  /\ wpc' = "synced"
  /\ UNCHANGED <<lockVars, diskVars, txnVars, wtmp, wnew, wold,
                 pureVars, acquired, receipts>>

\* os.replace(tmp_name, full_path)
WReplace ==
  /\ wpc = "synced"
  /\ fs' = [fs EXCEPT ![PA] = FileOf(wtmp.data, now)]
  /\ wtmp' = NoTemp
  /\ wpc' = "replaced"
  /\ UNCHANGED <<lockVars, now, backups, txnVars, wnew, wold,
                 pureVars, acquired, receipts>>

WKill ==
  /\ wpc \in {"start", "opened", "written", "flushed", "synced"}
  /\ wpc' = "killed"
  /\ UNCHANGED <<lockVars, diskVars, txnVars, wtmp, wnew, wold,
                 pureVars, acquired, receipts>>

\* contents a written file replaces, and contents handed to the writer
WriterOld ==
  {Absent, FileOf(<<>>, 0), FileOf(<<ChX>>, 0), FileOf(ToWrite(CLong), 0),
   FileOf(<<ChY, CR, LF>>, 0)}
WriterFinal == {CShort, CLong, CLong2, <<ChX, LF, ChY>>, <<BOM, ChY>>}

InitWrite ==
  /\ InitCommon
  /\ pool = Ops
  /\ tamper = FALSE
  /\ read_attempts = 0
  /\ lockfile = NoLock
  /\ wold \in WriterOld
  /\ fs = TreeOf(wold, Absent, Absent, Absent)
  /\ pre = fs
  /\ \E final \in WriterFinal : wnew = ToWrite(final)
  /\ wtmp = NoTemp
  /\ wpc = "start"

NextWrite == WOpenTemp \/ WWrite \/ WFlush \/ WFsync \/ WReplace \/ WKill

SpecWrite == InitWrite /\ [][NextWrite]_vars

(***************************************************************************)
(* Properties.                                                             *)
(***************************************************************************)
\* kind and bytes of path p are the same in trees f and g
SameContent(f, g, p) == f[p].kind = g[p].kind /\ f[p].data = g[p].data

\* execute() has returned from a failed transaction
ExecuteReturnedFail ==
  /\ has_txn
  /\ receipt.status = "FAIL"
  /\ lpc[Me] \in {"finally", "remove", "post", "done"}

\* the step is one call of process_operation, for the operation batch'[i']
IsOperationStep == i' = i + 1

\* the step started no operation: nothing was read for one, backed up,
\* recorded for undo or entered in the receipt
NothingStarted ==
  /\ i' = i
  /\ batch' = batch
  /\ undo_log' = undo_log
  /\ receipt'.actions = receipt.actions
  /\ receipt'.updated_files = receipt.updated_files

\* C1: when execute returns from a production run that failed, every managed
\* path has the kind and bytes it had before the run.
C1_RollbackComplete ==
  (ExecuteReturnedFail /\ ~dry_run)
    => \A p \in ManagedPaths : SameContent(fs, pre, p)

\* C2: at most one engine process at a time is between its acquisition of
\* the lock and its release of it.
C2_MutualExclusion == Cardinality({p \in Procs : lpc[p] = "held"}) <= 1

\* an operation with an expected checksum that the readable target does not have
StaleExpected(op, f) ==
  LET full == AbsJoin(ROOT_DIR, op.path)
  IN /\ op.action # "" /\ op.path # <<>>
     /\ InsideBase(ROOT_DIR, full)
     /\ ReadFileWithRetry(f, full).ok
     /\ op.expected # NoExpected
     /\ CalculateCleanChecksum(ReadFileWithRetry(f, full).bytes) # op.expected

\* C3: an operation whose expected_checksum_before differs from the
\* fingerprint of the target's current bytes fails with a state conflict; the
\* step makes no backup, no undo record and no write, and sets status FAIL.
C3_OptimisticConcurrency ==
  [][(IsOperationStep /\ StaleExpected(batch'[i'], fs))
       => /\ err' = "STATE_CONFLICT_CHECKSUM"
          /\ receipt'.status = "FAIL"
          /\ fs' = fs
          /\ backups' = backups
          /\ undo_log' = undo_log
          /\ receipt'.actions = receipt.actions]_vars

C3_Witness ==
  /\ lpc[Me] = "rollback"
  /\ err = "STATE_CONFLICT_CHECKSUM"
  /\ i >= 2
  /\ undo_log # <<>>
  /\ IsFile(fs, AbsJoin(ROOT_DIR, batch[i].path))

\* C4: whatever step of a write the process has reached or was killed at, the
\* target holds either what it held before the write (or is absent as before)
\* or all of the new bytes.
C4_WriteAtomicity ==
  /\ fs[PA] = wold \/ (IsFile(fs, PA) /\ fs[PA].data = wnew)
  /\ wpc = "replaced" => (IsFile(fs, PA) /\ fs[PA].data = wnew)

C4_Witness ==
  /\ wpc = "killed"
  /\ wtmp.exists
  /\ wtmp.data # <<>> /\ wtmp.data # wnew
  /\ wold.kind = "file"
  /\ fs[PA] = wold

\* C5: the second run of a batch that ended SUCCESS ends NO_OP, records
\* NO_CHANGE for every operation and leaves the tree as it found it.
C5_Idempotence ==
  (run = 2 /\ has_txn /\ lpc[Me] = "done")
    => /\ receipt.status = "NO_OP"
       /\ Len(receipt.actions) = Len(batch)
       /\ \A k \in 1..Len(receipt.actions) : receipt.actions[k].status = "NO_CHANGE"
       /\ fs = pre

\* C6: the status leaves PENDING for SUCCESS, NO_OP or FAIL only, and once it
\* is one of these no later step changes it.
C6_TerminalStatusFinal ==
  [][/\ receipt.status \in Terminal => receipt'.status = receipt.status
     /\ receipt.status = "PENDING" => receipt'.status \in Terminal \cup {"PENDING"}
     /\ (has_txn' /\ lpc'[Me] \in {"finally", "remove", "post", "done"})
          => receipt'.status \in Terminal]_vars

C6_Witness ==
  /\ lpc[Me] = "done"
  /\ emitted = "failed"
  /\ receipt.status = "SUCCESS"
  /\ undo_log # <<>>

\* C7: an operation whose resolved path is outside the managed root fails
\* with a security error in a step that changes no file, backup or undo
\* record and sets status FAIL; the path outside the root never changes.
C7_TraversalGuard ==
  /\ [](fs[OUTSIDE] = FileOf(<<ChX>>, 0))
  /\ [][(/\ IsOperationStep
         /\ batch'[i'].action # "" /\ batch'[i'].path # <<>>
         /\ ~IsPrefix(ROOT_DIR, AbsJoin(ROOT_DIR, batch'[i'].path)))
          => /\ err' = "SECURITY"
             /\ receipt'.status = "FAIL"
             /\ fs' = fs
             /\ backups' = backups
             /\ undo_log' = undo_log]_vars

C7_Witness ==
  /\ ExecuteReturnedFail
  /\ err = "SECURITY"
  /\ AbsJoin(ROOT_DIR, batch[i].path) = OUTSIDE
  /\ i >= 2

\* C8: operations are taken in the order of the package, each receipt entry
\* is that of the operation at its position, and once an operation has
\* failed no later operation is started.
C8_FailureAborts ==
  /\ [](has_txn => /\ Len(receipt.actions) <= i
                   /\ i <= Len(batch)
                   /\ \A k \in 1..Len(receipt.actions) :
                        /\ receipt.actions[k].action = batch[k].action
                        /\ receipt.actions[k].path = batch[k].path
                   /\ receipt.status # "FAIL" => Len(receipt.actions) = i
                   /\ receipt.status = "FAIL" => Len(receipt.actions) = i - 1)
  /\ [][(has_txn /\ receipt.status = "FAIL")
          => (NothingStarted /\ backups' \subseteq backups)]_vars

C8_Witness ==
  /\ run = 2
  /\ lpc[Me] = "done"
  /\ receipt.status = "FAIL"
  /\ i >= 2
  /\ i < Len(batch)

\* the paths that have two or more undo records
TwiceMutated ==
  {p \in ManagedPaths :
     \E j, k \in 1..Len(undo_log) : j < k /\ undo_log[j].path = p /\ undo_log[k].path = p}

\* C9: the undo records are replayed from the last appended to the first, and
\* a path mutated twice in the batch is back in its state of before the batch.
C9_UndoReplayOrder ==
  (ExecuteReturnedFail /\ ~dry_run)
    => /\ undo_trace = [k \in 1..Len(undo_log) |-> Len(undo_log) + 1 - k]
       /\ \A p \in TwiceMutated : SameContent(fs, pre, p)

\* C10: every undo record is attempted exactly once, every record that could
\* not be undone has an entry in rollback_errors, and the status is FAIL.
C10_RollbackRunsToEnd ==
  ExecuteReturnedFail
    => /\ Len(undo_trace) = Len(undo_log)
       /\ \A k \in 1..Len(undo_log) : \E j \in 1..Len(undo_trace) : undo_trace[j] = k
       /\ Len(receipt.rollback_errors) = undo_failed
       /\ receipt.status = "FAIL"

\* the operation of the step and the path it resolves to
StepOp == batch'[i']
StepPath == AbsJoin(ROOT_DIR, StepOp.path)

\* the step is a production call of process_operation for `action` on a
\* path inside the root
ProductionStepOf(action) ==
  /\ IsOperationStep
  /\ ~dry_run
  /\ StepOp.action = action
  /\ InsideBase(ROOT_DIR, StepPath)

\* the step recorded SUCCESS for its operation
StepSucceeded ==
  /\ Len(receipt'.actions) = Len(receipt.actions) + 1
  /\ Last(receipt'.actions).status = "SUCCESS"

StepFailed == receipt'.status = "FAIL"

\* C11: CREATE_FILE on an absent target (no expected checksum) writes the
\* content and succeeds; on an existing target it fails with a state
\* conflict and leaves the tree unchanged, whatever expected checksum it has.
C11_CreateRequiresAbsence ==
  [][ProductionStepOf("CREATE_FILE")
       => IF PathExists(fs, StepPath)
          THEN /\ StepFailed
               /\ err' \in {"STATE_CONFLICT_EXISTS", "STATE_CONFLICT_CHECKSUM"}
               /\ fs' = fs
          ELSE StepOp.expected = NoExpected
                 => /\ StepSucceeded
                    /\ IsFile(fs', StepPath)
                    /\ StripTags(fs'[StepPath].data) = StepOp.content]_vars

\* C12: MODIFY_FILE on an absent target fails and creates nothing, whatever
\* expected checksum it has; on a present target, when it succeeds, the
\* clean content of the file is the content provided.
C12_ModifyRequiresPresence ==
  [][ProductionStepOf("MODIFY_FILE")
       => IF ~PathExists(fs, StepPath)
          THEN StepFailed /\ fs' = fs
          ELSE StepSucceeded
                 => /\ IsFile(fs', StepPath)
                    /\ StripTags(fs'[StepPath].data) = StepOp.content]_vars

\* C13: DELETE_FILE without expected checksum backs up and removes an
\* existing file, and on an absent target succeeds and changes nothing.
C13_DeleteIdempotent ==
  [][(ProductionStepOf("DELETE_FILE") /\ StepOp.expected = NoExpected)
       => /\ StepSucceeded
          /\ IF IsFile(fs, StepPath)
             THEN /\ ~PathExists(fs', StepPath)
                  /\ \E b \in backups' : /\ b.data = fs[StepPath].data
                                         /\ b.base = Basename(StepPath)
                  /\ Len(undo_log') = Len(undo_log) + 1
             ELSE fs' = fs /\ backups' = backups /\ undo_log' = undo_log]_vars

\* C14: CREATE_DIRECTORY without expected checksum creates an absent
\* directory and succeeds; on an existing directory it succeeds and changes
\* nothing; on an existing non-directory it fails.
C14_CreateDirectoryIdempotent ==
  [][ProductionStepOf("CREATE_DIRECTORY")
       => IF ~PathExists(fs, StepPath)
          THEN StepOp.expected = NoExpected => (StepSucceeded /\ IsDir(fs', StepPath))
          ELSE IF IsDir(fs, StepPath)
          THEN StepSucceeded /\ fs' = fs
          ELSE StepFailed /\ fs' = fs]_vars

\* C20: a run whose status is NO_OP has left every managed path as it was.
C20_NoOpMeansUnchanged ==
  (has_txn /\ receipt.status = "NO_OP")
    => \A p \in ManagedPaths : SameContent(fs, pre, p)

\* C15: APPEND_TO_FILE and APPEND_TO_JSON_ARRAY without expected checksum on
\* an absent target succeed and create the file with the appended content,
\* respectively with the array of the appended elements.
C15_AppendToAbsent ==
  [][(/\ IsOperationStep
      /\ ~dry_run
      /\ StepOp.action \in {"APPEND_TO_FILE", "APPEND_TO_JSON_ARRAY"}
      /\ InsideBase(ROOT_DIR, StepPath)
      /\ StepOp.expected = NoExpected
      /\ ~PathExists(fs, StepPath))
       => /\ StepSucceeded
          /\ IsFile(fs', StepPath)
          /\ IF StepOp.action = "APPEND_TO_FILE"
             THEN StripTags(fs'[StepPath].data) = StepOp.content
             ELSE JsonLoads(StripTags(fs'[StepPath].data)).items = StepOp.json.items]_vars

\* the array a file holds, its integrity tag apart
HoldsJsonArray(data) == JsonLoads(StripTags(data)).ok /\ JsonLoads(StripTags(data)).list
ArrayOf(data) == JsonLoads(StripTags(data)).items

\* C16: APPEND_TO_JSON_ARRAY on a file that holds the JSON array A leaves a
\* file that holds A followed by the elements of the content (a list) or by
\* the content (not a list); on a file that holds no JSON array the
\* operation fails and changes nothing.
C16_AppendToJsonArray ==
  [][(/\ ProductionStepOf("APPEND_TO_JSON_ARRAY")
      /\ IsFile(fs, StepPath)
      /\ ~StaleExpected(StepOp, fs))
       => IF HoldsJsonArray(fs[StepPath].data)
          THEN /\ ~StepFailed
               /\ IsFile(fs', StepPath)
               /\ HoldsJsonArray(fs'[StepPath].data)
               /\ ArrayOf(fs'[StepPath].data)
                    = JsonAppend(ArrayOf(fs[StepPath].data), StepOp.json)
          ELSE StepFailed /\ fs' = fs /\ backups' = backups]_vars

\* text with the first occurrence of pattern replaced by replacement
FirstMatchReplaced(text, pattern, replacement) ==
  LET k == FindFirst(text, pattern)
  IN SubSeq(text, 1, k - 1) \o replacement \o SubSeq(text, k + Len(pattern), Len(text))

\* C17: REPLACE_IN_FILE with a pattern that occurs in the file replaces the
\* first occurrence and leaves the rest of the content as it was (compared
\* by fingerprint, so that the integrity tag, the newline style and a
\* byte-order mark do not count); with a pattern that does not occur it
\* records NO_CHANGE, does not fail, and makes no backup, undo record or
\* write.
C17_ReplaceFirstMatch ==
  [][(/\ ProductionStepOf("REPLACE_IN_FILE")
      /\ IsFile(fs, StepPath)
      /\ ~StaleExpected(StepOp, fs)
      /\ StepOp.pattern # <<>>)
       => IF FindFirst(DecodeFileContent(fs[StepPath].data), StepOp.pattern) = 0
          THEN /\ ~StepFailed
               /\ Len(receipt'.actions) = Len(receipt.actions) + 1
               /\ Last(receipt'.actions).status = "NO_CHANGE"
               /\ fs' = fs /\ backups' = backups /\ undo_log' = undo_log
          ELSE StepSucceeded
                 => CalculateCleanChecksum(fs'[StepPath].data)
                      = CalculateCleanChecksum(
                          FirstMatchReplaced(fs[StepPath].data, StepOp.pattern,
                                             StepOp.replacement))]_vars

\* the content a MODIFY_FILE or REPLACE_IN_FILE operation wants to write
NewContent(op, old) ==
  IF op.action = "MODIFY_FILE" THEN op.content
  ELSE ReplaceInFileLogic(old, op.pattern, op.replacement).bytes

\* the operation of the step replaces non-empty prior content
ReplacesContent ==
  /\ StepOp.action \in {"MODIFY_FILE", "REPLACE_IN_FILE"}
  /\ IsFile(fs, StepPath)
  /\ fs[StepPath].data # <<>>
  /\ ~StaleExpected(StepOp, fs)
  /\ StepOp.action = "REPLACE_IN_FILE"
       => ReplaceInFileLogic(fs[StepPath].data, StepOp.pattern, StepOp.replacement).count > 0

\* new content under half the old length, or containing a placeholder marker
TooShortOrPlaceholder(old, new) ==
  \/ 2 * ByteLen(new) < ByteLen(old)
  \/ \E m \in DEFAULT_MARKERS : Contains(new, m)

\* C18: an operation that replaces non-empty prior content is rejected by
\* the data-loss guard exactly when the new content is shorter than half the
\* old or contains a placeholder marker, and then nothing is backed up or
\* written; no other operation is rejected by the guard.
C18_DataLossGuard ==
  [][(IsOperationStep /\ InsideBase(ROOT_DIR, StepPath))
       => IF ReplacesContent
          THEN /\ (err' = "DATA_LOSS_GUARD")
                    <=> TooShortOrPlaceholder(fs[StepPath].data,
                                              NewContent(StepOp, fs[StepPath].data))
               /\ (err' = "DATA_LOSS_GUARD")
                    => /\ StepFailed
                       /\ fs' = fs /\ backups' = backups /\ undo_log' = undo_log
          ELSE err' # "DATA_LOSS_GUARD"]_vars

\* 1000 bytes were replaced by 600, and 10 bytes were then rejected
C18_Witness ==
  /\ i = 2
  /\ ByteLen(pre[PA].data) = 10 * BlockLen
  /\ batch[1] = Op("MODIFY_FILE", <<"a">>, Text600, NoExpected)
  /\ receipt.actions[1].status = "SUCCESS"
  /\ batch[2] = Op("MODIFY_FILE", <<"a">>, Text10, NoExpected)
  /\ err = "DATA_LOSS_GUARD"

\* the digests computed so far for the ways of writing the content
DigestsOfContent == {r.digest : r \in {x \in output : x.variant # "absent"}}

AbsentAsEmpty ==
  \A r \in output : r.variant = "absent" => r.digest = CalculateCleanChecksum(<<>>)

\* C19 (as stated): for every content, the fingerprints of the content, of
\* the content followed by a tag, with CRLF for LF, with a leading BOM and
\* with extra trailing blank lines are equal; an absent file has the
\* fingerprint of empty content.
C19_FingerprintStability ==
  /\ Cardinality(DigestsOfContent) <= 1
  /\ AbsentAsEmpty

\* a content without carriage return, not starting with a byte-order mark and
\* not ending, trailing whitespace apart, with an integrity tag
PlainContent(c) ==
  /\ \A k \in 1..Len(c) : c[k] # CR
  /\ c = <<>> \/ Head(c) # BOM
  /\ LET body == RStripSet(c, {LF, CR, SP})
     IN body = <<>> \/ ~IsTag(Last(body))

\* C19 (amended): the same, for every content that has no carriage return,
\* no leading byte-order mark and no integrity tag at its end.
C19_FingerprintStabilityPlain ==
  /\ PlainContent(input) => Cardinality(DigestsOfContent) <= 1
  /\ AbsentAsEmpty

C19_Witness ==
  /\ input = <<ChX, LF, ChX>>
  /\ Cardinality(output) = 6


(***************************************************************************)
(* The lock marker.                                                        *)
(***************************************************************************)
\* process p went from open(LOCK_FILE_PATH, 'x') to the except branch
AcquireRefused(p) == lpc[p] = "init" /\ lpc'[p] = "finally"
\* the process that created the marker is running
MarkerOwnerAlive == lockfile.exists /\ PidExists(lockfile.owner)

\* C21: an engine process is refused the lock only when a marker exists
\* whose owner process is alive; the marker of a dead owner is deleted and
\* the creation retried, so it never makes acquisition fail.
C21_LockAcquisitionRule ==
  [][\A p \in Procs : AcquireRefused(p) => MarkerOwnerAlive]_vars


\* process p executed os.remove(LOCK_FILE_PATH) on an existing marker
RemovesMarker(p) == lpc[p] = "remove" /\ lpc'[p] = "post" /\ lockfile.exists

\* C22: a process never removes a marker created by another process that
\* is still running: the marker it removes is its own or that of a process
\* that is gone.
C22_OwnerOnlyRelease ==
  [][\A p \in Procs :
       RemovesMarker(p) => (lockfile.owner = p \/ ~PidExists(lockfile.owner))]_vars


\* process p has left the finally block of main()
Exited(p) == lpc[p] \in {"post", "done"}

\* C23: when a process that created the marker has left main's finally
\* block without being killed, the marker it created is no longer on disk.
C23_LockTransient ==
  \A p \in Procs :
    (p \in acquired /\ Exited(p)) => ~(lockfile.exists /\ lockfile.owner = p)

\* a process acquired the lock, ran to its end and left no marker, while
\* another process was refused in between
C23_Witness ==
  \E p \in Procs : \E q \in Procs \ {p} :
    /\ p \in acquired /\ lpc[p] = "done"
    /\ q \notin acquired /\ lpc[q] = "done"
    /\ ~lockfile.exists


\* the marker created by process p is on disk
HoldsMarker(p) == lockfile.exists /\ lockfile.owner = p

\* C24: while a run that acquired the lock and created a transaction has
\* not yet written its receipt, its marker is still on disk.
C24_ReceiptBeforeRelease ==
  (Me \in acquired /\ has_txn /\ emitted = "none") => HoldsMarker(Me)


(***************************************************************************)
(* Receipts.                                                               *)
(***************************************************************************)
\* the receipt files that an earlier run saved
PriorReceipts == {t \in Stamps : receipts[t].exists /\ receipts[t].run < run}

\* C25: no step of a run changes a receipt file that an earlier run saved.
C25_PriorReceiptsIntact ==
  [][\A t \in PriorReceipts : receipts'[t] = receipts[t]]_vars


(***************************************************************************)
(* Backups.                                                                *)
(***************************************************************************)
\* the backups the step took: the references of the RESTORE_FILE records
\* it appended
BackupsTaken ==
  {undo_log'[k].backup : k \in {j \in (Len(undo_log) + 1)..Len(undo_log') :
                                  undo_log'[j].action = "RESTORE_FILE"}}

\* C26: a backup is never stored at a path where a backup already is.
C26_BackupPathsUnique ==
  [][\A ref \in BackupsTaken : BackupAt(backups, ref) = {}]_vars


(***************************************************************************)
(* The integrity tag.                                                      *)
(***************************************************************************)
\* the step is a production call of process_operation that wrote its target
StepWrote ==
  /\ IsOperationStep
  /\ ~dry_run
  /\ StepSucceeded
  /\ StepOp.action \in {"CREATE_FILE", "MODIFY_FILE", "APPEND_TO_FILE",
                        "APPEND_TO_JSON_ARRAY", "REPLACE_IN_FILE"}

\* the text before the last token of data, trailing whitespace apart
BeforeLast(data) == Front(RStripSet(data, {LF, CR, SP}))

\* data ends with exactly one tag, which embeds the fingerprint of data
OneTrueTag(data) ==
  LET body == RStripSet(data, {LF, CR, SP})
      rest == RStripSet(BeforeLast(data), {LF, CR, SP})
  IN /\ body # <<>>
     /\ MatchesTagPattern(Last(body))
     /\ rest = <<>> \/ ~MatchesTagPattern(Last(rest))
     /\ TagDigest(Last(body)) = CalculateCleanChecksum(data)

\* C27: after every successful production write the file ends with exactly
\* one integrity tag, and the digest in that tag is the fingerprint of the
\* file's content.
C27_IntegrityTagInvariant ==
  [][StepWrote => OneTrueTag(fs'[StepPath].data)]_vars


(***************************************************************************)
(* The no-change skip.                                                     *)
(***************************************************************************)
\* the bytes read from the target of the step
PriorBytes == IF IsFile(fs, StepPath) THEN fs[StepPath].data ELSE NoneBytes

\* the content the operation of the step results in
ResultingContent ==
  IF StepOp.action \in {"CREATE_FILE", "MODIFY_FILE"} THEN StepOp.content
  ELSE IF StepOp.action = "APPEND_TO_FILE"
  THEN (IF PriorBytes = NoneBytes THEN <<>> ELSE PriorBytes) \o StepOp.content
  ELSE ReplaceInFileLogic(PriorBytes, StepOp.pattern, StepOp.replacement).bytes

\* the step is a call of process_operation that produced content and was
\* not rejected
ProducedContent ==
  /\ IsOperationStep
  /\ InsideBase(ROOT_DIR, StepPath)
  /\ ~StepFailed
  /\ StepOp.action \in {"CREATE_FILE", "MODIFY_FILE", "APPEND_TO_FILE", "REPLACE_IN_FILE"}

\* C28: an operation whose resulting content has the fingerprint of the
\* prior content is recorded NO_CHANGE, and writes nothing, backs nothing up,
\* appends no undo record and adds nothing to updated_files.
C28_NoChangeSkip ==
  [][(/\ ProducedContent
      /\ CalculateCleanChecksum(ResultingContent) = CalculateCleanChecksum(PriorBytes))
       => /\ Last(receipt'.actions).status = "NO_CHANGE"
          /\ fs' = fs
          /\ backups' = backups
          /\ undo_log' = undo_log
          /\ receipt'.updated_files = receipt.updated_files]_vars


(***************************************************************************)
(* Backup before mutation.                                                 *)
(***************************************************************************)
\* the step is a production call of process_operation that overwrote or
\* removed a file that existed
MutatedExistingFile ==
  /\ IsOperationStep
  /\ ~dry_run
  /\ InsideBase(ROOT_DIR, StepPath)
  /\ IsFile(fs, StepPath)
  /\ ~SameContent(fs', fs, StepPath)

\* the step appended a RESTORE_FILE record for its target that references
\* a backup holding the bytes the target had before the step
BackedUpExactly ==
  \E k \in (Len(undo_log) + 1)..Len(undo_log') :
    /\ undo_log'[k] = RestoreRecord(StepPath, undo_log'[k].backup)
    /\ \E b \in BackupAt(backups', undo_log'[k].backup) : b.data = fs[StepPath].data

\* C29: an operation that overwrites or removes an existing file has taken
\* a backup of the file's exact bytes and appended a RESTORE_FILE record
\* referencing it.
C29_BackupPrecedesMutation ==
  [][MutatedExistingFile => BackedUpExactly]_vars


(***************************************************************************)
(* Backup rotation.                                                        *)
(***************************************************************************)
\* the backups of a base name in a store
BackupsOf(bk, base) == {b \in bk : b.base = base}
\* the backups of ref's base name that the step removed from the store
\* (a backup replaced under its own name is not one of them)
Rotated(ref) ==
  {b \in BackupsOf(backups, ref.base) : BackupRef(b) # ref /\ b \notin backups'}

\* C30: after create_backup_and_rotate at most MAX_BACKUPS backups of the
\* file name exist, every backup deleted is at most as recent as every
\* backup kept, and the backup just created is in the store.
C30_BackupRotation ==
  [][\A ref \in BackupsTaken :
       /\ Cardinality(BackupsOf(backups', ref.base)) <= MAX_BACKUPS
       /\ \A d \in Rotated(ref) : \A k \in BackupsOf(backups', ref.base) :
            d.mtime <= k.mtime
       /\ BackupAt(backups', ref) # {}]_vars


(***************************************************************************)
(* Post-write verification.                                                *)
(***************************************************************************)
\* the step is a production call of process_operation that got as far as
\* writing its target
WriteReached ==
  /\ IsOperationStep
  /\ ~dry_run
  /\ InsideBase(ROOT_DIR, StepPath)
  /\ StepOp.action \in {"CREATE_FILE", "MODIFY_FILE", "APPEND_TO_FILE", "REPLACE_IN_FILE"}
  /\ Len(undo_log') > Len(undo_log)
  /\ err' # "OS_ERROR"

\* the target holds, after the step, bytes whose fingerprint is not that of
\* the bytes the step wrote
ReadBackDiffers ==
  CalculateCleanChecksum(fs'[StepPath].data)
    # CalculateCleanChecksum(ToWrite(ResultingContent))

\* execute() has returned from a production run that failed verification
VerifyFailedReturned == ExecuteReturnedFail /\ ~dry_run /\ err = "VERIFY_FAILED"

\* C31: a production write whose target, read back, has another fingerprint
\* than the content written fails the operation at once (no second write),
\* the transaction goes to rollback with status FAIL, and when execute
\* returns every managed path is as before the run.
C31_PostWriteVerification ==
  /\ [][(WriteReached /\ ReadBackDiffers)
          => /\ StepFailed
             /\ err' = "VERIFY_FAILED"
             /\ lpc'[Me] = "rollback"
             /\ rb' = Len(undo_log')]_vars
  /\ [](VerifyFailedReturned => \A p \in ManagedPaths : SameContent(fs, pre, p))


(***************************************************************************)
(* The receipt's list of per-operation outcomes.                           *)
(***************************************************************************)
\* the operations of the package that have completed so far
Completed == IF receipt.status = "FAIL" THEN i - 1 ELSE i

\* the k-th entry of receipt['actions'] is the outcome of the k-th operation
EntryOf(k) ==
  /\ receipt.actions[k].action = batch[k].action
  /\ receipt.actions[k].path = batch[k].path
  /\ receipt.actions[k].status \in {"SUCCESS", "NO_CHANGE"}

\* C32: at every point of a run the list of the receipt holds one entry for
\* each completed operation, in the order of the package, and nothing else;
\* with status SUCCESS or NO_OP it has as many entries as the package has
\* operations.
C32_ReceiptOutcomeList ==
  has_txn =>
    /\ Len(receipt.actions) = Completed
    /\ \A k \in 1..Len(receipt.actions) : EntryOf(k)
    /\ receipt.status \in {"SUCCESS", "NO_OP"} => Len(receipt.actions) = Len(batch)

C32_Witness ==
  /\ has_txn
  /\ receipt.status = "SUCCESS"
  /\ Len(batch) = MaxOps
  /\ Len(receipt.actions) = MaxOps
  /\ \E k \in 1..MaxOps : receipt.actions[k].status = "NO_CHANGE"
  /\ \E k \in 1..MaxOps : receipt.actions[k].status = "SUCCESS"

C32_WitnessFail ==
  /\ has_txn
  /\ receipt.status = "FAIL"
  /\ i = MaxOps
  /\ Len(receipt.actions) = MaxOps - 1


(***************************************************************************)
(* Termination.  main() is sequential code without a blocking wait: the    *)
(* lock is tried once, a read sleeps 0.2 s between attempts, and the loops *)
(* of execute() and rollback() run over finite lists.  A process that is   *)
(* not killed therefore takes its next step.                               *)
(***************************************************************************)
LiveOps ==
  {Op("CREATE_FILE", <<"a">>, CShort, NoExpected),
   Op("MODIFY_FILE", <<"a">>, CLong, NoExpected),
   Op("DELETE_FILE", <<"a">>, NoContent, NoExpected),
   Op("CREATE_DIRECTORY", <<"d">>, NoContent, NoExpected),
   Op("CREATE_FILE", <<"d", "e", "a">>, CShort, NoExpected),
   Op("CREATE_FILE", <<"..", "x">>, CShort, NoExpected)}

InitLive ==
  /\ InitCommon
  /\ pool = LiveOps
  /\ tamper = FALSE
  /\ read_attempts = 0
  /\ fs \in InitTrees
  /\ pre = fs
  /\ lockfile \in {NoLock, OrphanLock}
  /\ WriterIdle

\* The loop of execute() comes to its end and rollback() takes its steps and
\* returns; an iteration of the loop needs no fairness of its own, a package
\* being finite.
SpecLive ==
  /\ InitLive
  /\ [][Next]_vars
  /\ WF_vars(FinishExecute)
  /\ WF_vars(RollbackStep)
  /\ WF_vars(RollbackReturn)

Executing == lpc[Me] = "exec"
ExecuteReturned ==
  /\ lpc[Me] \notin {"exec", "rollback"}
  /\ receipt.status \in Terminal

\* the step is a call of process_operation that got as far as reading its target
ReadReached ==
  /\ IsOperationStep
  /\ StepOp.action # "" /\ StepOp.path # <<>>
  /\ InsideBase(ROOT_DIR, StepPath)

\* reversed(self.undo_log), each record once
ReversedOnce == [k \in 1..Len(undo_log) |-> Len(undo_log) + 1 - k]

\* C33: an execution that has started reaches a terminal status; a read
\* makes at most ATTEMPTS attempts, an absent target is read as absent at
\* the first attempt, a target that cannot be read fails the run after the
\* last attempt; rollback goes through the undo log once, backwards.
C33_Termination ==
  /\ Executing ~> ExecuteReturned
  /\ [](read_attempts \in 0..ATTEMPTS)
  /\ [][ReadReached =>
          /\ ~PathExists(fs, StepPath) => (read_attempts' = 1 /\ err' # "IO_ERROR")
          /\ IsFile(fs, StepPath) => (read_attempts' = 1 /\ err' # "IO_ERROR")
          /\ IsDir(fs, StepPath) =>
                /\ read_attempts' = ATTEMPTS
                /\ StepFailed /\ err' = "IO_ERROR" /\ lpc'[Me] = "rollback"]_vars
  /\ [](ExecuteReturnedFail => undo_trace = ReversedOnce)

C33_Witness ==
  /\ ExecuteReturned
  /\ receipt.status = "FAIL"
  /\ err = "IO_ERROR"
  /\ read_attempts = ATTEMPTS
  /\ Len(undo_log) >= 2
  /\ undo_trace = ReversedOnce


(***************************************************************************)
(* Dry runs.                                                               *)
(***************************************************************************)
\* C34: during and after a run started with --dry-run, whatever its outcome,
\* every path of the managed tree is what it was when the run started: no
\* file or directory has been created, modified or deleted.
C34_DryRunChangesNothing ==
  (has_txn /\ dry_run) => \A p \in ManagedPaths : SameContent(fs, pre, p)


(***************************************************************************)
(* Transaction.execute applied on its own to a package and a tree, once    *)
(* with dry_run set and once without.                                      *)
(***************************************************************************)
\* lines 238-259: the receipts execute() can end with, from operation k on
RECURSIVE ExecuteFrom(_, _, _, _, _, _)
ExecuteFrom(ops, k, f, bk, dry, rcpt) ==
  IF ops = <<>> /\ ~dry THEN {[rcpt EXCEPT !.status = "NO_OP"]}
  ELSE IF k > Len(ops)
  THEN {[rcpt EXCEPT !.status = FinalStatus(ops, rcpt.updated_files, dry)]}
  ELSE UNION {IF out.res = "FAIL" THEN {[rcpt EXCEPT !.status = "FAIL"]}
              ELSE ExecuteFrom(ops, k + 1, out.fs, out.backups, dry,
                               RecordAction(rcpt, ops[k], out))
                : out \in ProcessOperationResults(ops[k], f, bk, now, dry)}

\* what a receipt reports: the overall status and the per-operation outcomes
Reported(rcpt) == [status |-> rcpt.status, actions |-> rcpt.actions]

Executed(dry) == \E r \in output : r.dry = dry

ExecuteAlone(dry) ==
  /\ ~Executed(dry)
  /\ output' = output \cup
        {[dry |-> dry,
          reports |-> {Reported(r) : r \in ExecuteFrom(input, 1, fs, backups, dry, NewReceipt)}]}
  /\ UNCHANGED <<lockVars, diskVars, txnVars, writerVars, input, acquired, receipts>>

ExecuteDry == ExecuteAlone(TRUE)
ExecuteProduction == ExecuteAlone(FALSE)

Packages == UNION {[1..n -> LiveOps] : n \in 0..MaxOps}

InitPredict ==
  /\ now = 0
  /\ backups = {}
  /\ lpc = [p \in Procs |-> "init"]
  /\ has_txn = FALSE
  /\ dry_run = FALSE
  /\ batch = <<>>
  /\ i = 0
  /\ undo_log = <<>>
  /\ receipt = NoReceipt
  /\ rb = 0
  /\ emitted = "none"
  /\ err = ""
  /\ undo_trace = <<>>
  /\ undo_failed = 0
  /\ run = 1
  /\ pool = LiveOps
  /\ tamper = FALSE
  /\ read_attempts = 0
  /\ fs \in InitTrees
  /\ pre = fs
  /\ lockfile = NoLock
  /\ WriterIdle
  /\ input \in Packages
  /\ output = {}
  /\ acquired = {}
  /\ receipts = [t \in Stamps |-> NoReceiptFile]

NextPredict == ExecuteDry \/ ExecuteProduction

SpecPredict == InitPredict /\ [][NextPredict]_vars

\* C35: for every package and every initial tree, the status and the
\* per-operation outcomes of a dry run are those of a production run of the
\* same package on the same tree.
C35_DryRunPredictsProduction ==
  \A r, q \in output : r.reports = q.reports


(***************************************************************************)
(* Undo records and what rollback does with them.                          *)
(***************************************************************************)
\* the undo records the step appended
NewRecords == {undo_log'[k] : k \in (Len(undo_log) + 1)..Len(undo_log')}

\* no operation of the run deleted or overwrote p from a backup taken of it
NeverBackedUp(p) ==
  \A k \in 1..Len(undo_log) :
     ~(undo_log[k].action = "RESTORE_FILE" /\ undo_log[k].path = p)

\* C36: an operation appends DELETE_NEWLY_CREATED_FILE only for a path that
\* did not exist when the operation started, so that after rollback a file
\* that existed before the transaction (a file of empty content included)
\* and of which no backup was taken still exists.
C36_RollbackKeepsExistingFiles ==
  /\ [][IsOperationStep =>
          \A r \in NewRecords :
             r.action = "DELETE_NEWLY_CREATED_FILE" => ~PathExists(fs, r.path)]_vars
  /\ [](ExecuteReturnedFail =>
          \A p \in ManagedPaths : (IsFile(pre, p) /\ NeverBackedUp(p)) => IsFile(fs, p))


\* the RESTORE_FILE records of a list of undo records
RestoreRecords(log) == {log[k] : k \in {j \in 1..Len(log) : log[j].action = "RESTORE_FILE"}}

\* C37: every RESTORE_FILE record refers, from the operation that appends it
\* until rollback starts, to a backup file that exists and holds the bytes
\* the target had just before that operation: the operation leaves such a
\* backup behind, and no later operation of the package overwrites or
\* deletes it.
C37_UndoReferencesValid ==
  [][IsOperationStep =>
       /\ \A r \in NewRecords :
             r.action = "RESTORE_FILE" =>
               \E b \in BackupAt(backups', r.backup) : b.data = fs[r.path].data
       /\ \A r \in RestoreRecords(undo_log) :
             /\ BackupAt(backups, r.backup) # {}
             /\ BackupAt(backups', r.backup) = BackupAt(backups, r.backup)]_vars


\* execute() has returned FAIL and the receipt lists no rollback error
FailedCleanly == ExecuteReturnedFail /\ receipt.rollback_errors = <<>>

\* the step is an iteration of the loop of rollback() whose undo could not
\* be carried out
UndoStepFailed == lpc[Me] = "rollback" /\ undo_failed' = undo_failed + 1

\* C38: a run that ends FAIL with an empty rollback_errors has reverted every
\* undo record and left the managed tree as it was before the run; an undo
\* step that could not be carried out adds an entry to rollback_errors.
C38_RollbackErrorsComplete ==
  /\ [](FailedCleanly =>
          /\ undo_failed = 0
          /\ \A p \in ManagedPaths : SameContent(fs, pre, p))
  /\ [][UndoStepFailed =>
          Len(receipt'.rollback_errors) = Len(receipt.rollback_errors) + 1]_vars


(***************************************************************************)
(* Appending to a JSON array the engine wrote.                             *)
(***************************************************************************)
\* data is what the engine writes for a JSON array: the text of json.dumps,
\* a newline, the integrity tag, a newline (lines 423-427)
EngineWrittenArray(data) ==
  /\ HoldsJsonArray(data)
  /\ data = ToWrite(JsonDumps(ArrayOf(data)))

\* C39: APPEND_TO_JSON_ARRAY on a file that an earlier operation of the
\* engine wrote as a JSON array succeeds, and the file afterwards holds the
\* earlier array followed by the appended elements.
C39_EngineOutputIsInput ==
  [][(/\ ProductionStepOf("APPEND_TO_JSON_ARRAY")
      /\ IsFile(fs, StepPath)
      /\ EngineWrittenArray(fs[StepPath].data)
      /\ ~StaleExpected(StepOp, fs))
       => /\ ~StepFailed
          /\ IsFile(fs', StepPath)
          /\ HoldsJsonArray(fs'[StepPath].data)
          /\ ArrayOf(fs'[StepPath].data)
               = JsonAppend(ArrayOf(fs[StepPath].data), StepOp.json)]_vars


(***************************************************************************)
(* A marker left by a killed run.                                          *)
(***************************************************************************)
\* no run other than p is between its start and the end of its finally block
NoOtherRunActive(p) ==
  \A q \in Procs \ {p} : lpc[q] \in {"init", "post", "done", "killed"}

\* the step takes p out of the finally block of main()
LeavesFinally(p) == lpc[p] \in {"finally", "remove"} /\ lpc'[p] = "post"

\* C40: a run that leaves its finally block while no other run is active
\* leaves no marker behind, its own or one of a killed run, so that the next
\* run acquires the lock.
C40_OrphanedMarkerRemoved ==
  [][\A p \in Procs :
       (LeavesFinally(p) /\ NoOtherRunActive(p)) => ~lockfile'.exists]_vars

=============================================================================
